---------------------------- MODULE Spec2Model ----------------------------
(***************************************************************************)
(* Model of the caller-side connection pool of python-ipc:                 *)
(*   pool/connection.py  Connection (state machine of one pooled socket)   *)
(*   pool/balancer.py    LoadBalancer.filter_available / select            *)
(*   pool/pool.py        ConnectionPool, the class of lines 12-293         *)
(*                                                                         *)
(* Every block of ConnectionPool that runs under `with self._lock` is one  *)
(* atomic action; Connection.send / Connection.receive, which callers run  *)
(* on a connection they were handed, are actions of their own.             *)
(* get_connection picks any available connection, which is what the        *)
(* 'random' strategy does and what every other strategy refines; telemetry *)
(* (PrometheusMetrics) is left out.                                        *)
(***************************************************************************)
EXTENDS Integers, Sequences, FiniteSets, TLC

(* ---------------------------- bounds ---------------------------------- *)
\* number of Connection objects the model may construct
MaxConnId == 3
\* hand-outs by get_connection not yet given back that the model follows
MaxHandout == 3
\* seconds after which a connection unused for that long is removed
\* (constructor parameter idle_timeout, scaled to clock ticks)
idle_timeout == 1
\* seconds after which a connection is removed whatever its state
\* (constructor parameter max_lifetime, scaled to clock ticks)
max_lifetime == 2
\* largest size of the pool (constructor parameter max_size)
max_size == 2

\* smallest size of the pool (constructor parameter min_size)
min_size == 1

(* ------------------------ program constants --------------------------- *)
\* PoolConfig defaults read by _auto_scale: 0.7, 2
scale_up_threshold_num == 7
scale_up_threshold_den == 10
scale_step == 2
\* PoolConfig.scale_down_idle_threshold (a configuration parameter, default
\* 2), set below max_size so that a pool can hold more idle connections
scale_down_idle_threshold == 1

\* what time.time() returns when the balancers are made, in the unit the
\* clock advances by: seconds since 1970, far more than any time that
\* passes between two uses of a connection
Epoch == 1000

ConnId == 1..MaxConnId
None == 0
\* time.time() - created_at and time.time() - last_used_at are followed up
\* to the first value that exceeds the timeout they are compared with.
\* last_used_at starts at 0.0 while time.time() counts seconds since 1970,
\* so a connection that was never used has been idle for OldIdle.
OldLife == max_lifetime + 1
OldIdle == idle_timeout + 1

\* ConnectionState (connection.py 7-12); "none" marks an object that has
\* not been constructed yet
IDLE == "idle"
BUSY == "busy"
CLOSED == "closed"
ERROR == "error"
ConnectionState == {IDLE, BUSY, CLOSED, ERROR}

VARIABLES
    constructed,   \* ConnectionPool.__init__ has returned
    stopped,       \* ConnectionPool._stopped
    connections,   \* ConnectionPool._connections (list of Connection)
    state,         \* Connection.state, per object
    socket,        \* Connection.socket is not None, per object
    lifetime,      \* time.time() - Connection.stats.created_at
    idle_time,     \* time.time() - Connection.stats.last_used_at
    handed,        \* hand-outs of a connection not yet given back
    connect_failed,\* some Connection.connect has failed so far
    last           \* the operation that ran last, and what it returned

\* the load balancers of pool/balancer.py and the statistics they read
VARIABLES
    total_requests,       \* Connection.stats.total_requests, per object
    avg_response_time,    \* Connection.stats.avg_response_time, per object
    current_index,        \* RoundRobinBalancer._current_index
    last_response_times,  \* WeightedResponseTimeBalancer._last_response_times
    current_time,         \* time.time() as the weighted balancer reads it
    selected,             \* the strategy select ran last with, and its result
    last_used_at,         \* Connection.stats.last_used_at, per object, as
                          \* the weighted balancer reads it (0 or a time)
    rr_returned           \* what the latest RoundRobinBalancer.select calls
                          \* returned, oldest first

\* the health checker of discovery/health.py
VARIABLES
    hc_stopped,   \* HealthChecker._stopped
    checks,       \* the names that are keys of HealthChecker._checks
    results,      \* HealthChecker._results, per name
    tasks,        \* the _run_check task of HealthChecker._tasks, per name
    check_func,   \* HealthChecker._checks, per name
    task_func,    \* the check_func the task of _tasks was started with
    orphans       \* per name, a _run_check task that was cancelled, is no
                  \* longer in _tasks and runs on

\* the registrar of discovery/registrar.py
VARIABLES
    registered_services,  \* the keys of ServiceRegistrar._registered_services
    service_checks,       \* ServiceRegistrar._service_checks, per instance id
    returned,             \* per instance id: "yes" once register has
                          \* returned it, "removed" once a deregister of
                          \* it has returned True, "no" before
    reg_last,             \* the registrar operation that ran last
    monitored,            \* per instance id, the check_names its
                          \* _monitor_health task reads
    registry              \* the instance ids whose key the discovery
                          \* holds, by what it answered

\* the discovery client of discovery/discovery.py and the etcd it talks to
VARIABLES
    etcd,         \* the keys <<service name, instance id>> etcd holds
    cache,        \* ServiceDiscovery._cache, per service name
    watchers,     \* the service names a _watch_service task watches
    events,       \* watch events not yet processed, per service name
    d_stopped,    \* ServiceDiscovery._stopped
    d_last,       \* the discovery operation that ran last, and its result
    keep_alive    \* the _keep_alive tasks that run, per key

\* the AsyncBridge of core/async_adapter.py
VARIABLES
    pending_callbacks,  \* the keys of AsyncBridge.pending_callbacks
    invoked,            \* times the callback of a msg_id was invoked
    asked,              \* msg_ids register_callback was called with
    responded,          \* msg_ids handle_response was called with
    b_last              \* the bridge operation that ran last

\* IpcClient and the AsyncBridge of client.py
VARIABLES
    client_pending,  \* IpcClient.async_bridge.pending_callbacks: the age of
                     \* the entry of a msg_id, or NoEntry
    completed,       \* msg_ids whose callback has been invoked
    issued,          \* msg_ids call_async has made
    c_last           \* the client operation that ran last

\* the wire codecs of python_service/neo_client.py (framing A) and of
\* protocol/protocol.py (the header codec)
VARIABLES
    encoded,    \* the codec that wrote last, and the message it was given
    wire,       \* the bytes written, as the reader will see them
    corrupted,  \* a bit of the bytes has been changed on the way
    decoded     \* what the reader made of the bytes: a message or an error

\* a worker: the NeoIPCClient of python_service/neo_client.py or of
\* examples-ipc/python/service.py, and its connection to the hub
VARIABLES
    worker,     \* the class of the worker, once it has connected
    inbox,      \* the frames the hub has written and the worker not read
    arrived,    \* how many frames the hub has written
    read_ids,   \* the ids of the REQUEST frames the worker has read
    handling,   \* the requests whose _handle_request task has not finished
    written,    \* the frames the worker has written, oldest first
    listening,  \* the worker's message loop has not ended
    writes_out, \* the writer.write calls of the worker, oldest first
    task_pc,    \* per request id, where its _handle_request task waits
    to_write    \* per request id, the writes its _send_message has left

pool_vars == <<constructed, stopped, connections, state, socket, lifetime,
               idle_time, handed, connect_failed, last>>
balancer_vars == <<total_requests, avg_response_time, current_index,
                   last_response_times, current_time, selected,
                   last_used_at, rr_returned>>
health_vars == <<hc_stopped, checks, results, tasks, check_func, task_func,
                 orphans>>
registrar_vars == <<registered_services, service_checks, returned, reg_last,
                    monitored, registry>>
discovery_vars == <<etcd, cache, watchers, events, d_stopped, d_last,
                    keep_alive>>
bridge_vars == <<pending_callbacks, invoked, asked, responded, b_last>>
client_vars == <<client_pending, completed, issued, c_last>>

codec_vars == <<encoded, wire, corrupted, decoded>>
worker_vars == <<worker, inbox, arrived, read_ids, handling, written,
                listening, writes_out, task_pc, to_write>>
vars == <<pool_vars, balancer_vars, health_vars, registrar_vars,
          discovery_vars, bridge_vars, client_vars, codec_vars, worker_vars>>

\* what the operations of one component leave alone
not_pool == <<balancer_vars, health_vars, registrar_vars, discovery_vars,
              bridge_vars, client_vars,
              codec_vars, worker_vars>>
not_balancer == <<pool_vars, health_vars, registrar_vars, discovery_vars,
                  bridge_vars, client_vars,
              codec_vars, worker_vars>>
not_health == <<pool_vars, balancer_vars, discovery_vars, bridge_vars,
                client_vars,
              codec_vars, worker_vars>>
not_discovery == <<pool_vars, balancer_vars, health_vars, registrar_vars,
                   bridge_vars, client_vars,
              codec_vars, worker_vars>>
not_bridge == <<pool_vars, balancer_vars, health_vars, registrar_vars,
                discovery_vars, client_vars,
              codec_vars, worker_vars>>
not_client == <<pool_vars, balancer_vars, health_vars, registrar_vars,
                discovery_vars, bridge_vars,
              codec_vars, worker_vars>>

not_codec == <<pool_vars, balancer_vars, health_vars, registrar_vars,
               discovery_vars, bridge_vars, client_vars, worker_vars>>
not_worker == <<pool_vars, balancer_vars, health_vars, registrar_vars,
                discovery_vars, bridge_vars, client_vars, codec_vars>>

Range(s) == {s[i] : i \in 1..Len(s)}

\* the objects constructed so far are 1..NextId-1
Constructed == {c \in ConnId : state[c] # "none"}
NextId == Cardinality(Constructed) + 1

Min(a, b) == IF a < b THEN a ELSE b

\* what an operation records about itself: its name, the connection it
\* was called with or returned, and whether a connect attempt it made failed
Op(name, c, failed) ==
    [op |-> name, conn |-> c, failed |-> failed, error |-> FALSE]

\* what Connection.send and Connection.receive record: error tells whether
\* the socket call inside raised
SocketOp(name, c, error) == [Op(name, c, FALSE) EXCEPT !.error = error]

\* hand-outs not yet given back
RECURSIVE HandedUpTo(_)
HandedUpTo(n) == IF n = 0 THEN 0 ELSE handed[n] + HandedUpTo(n - 1)
Outstanding == HandedUpTo(MaxConnId)

TypeOK ==
    /\ constructed \in BOOLEAN /\ stopped \in BOOLEAN
    /\ connections \in Seq(ConnId)
    /\ state \in [ConnId -> ConnectionState \cup {"none"}]
    /\ socket \in [ConnId -> BOOLEAN]
    /\ lifetime \in [ConnId -> 0..OldLife]
    /\ idle_time \in [ConnId -> 0..OldIdle]
    /\ handed \in [ConnId -> 0..MaxHandout]
    /\ connect_failed \in BOOLEAN

(* ----------------------------- Connection ----------------------------- *)
\* Connection.is_connected
is_connected(c) == socket[c] /\ state[c] \notin {CLOSED, ERROR}

\* mutant: filter_available takes every IDLE connection, connected or not
filter_available_idle(conns) == SelectSeq(conns, LAMBDA c : state[c] = IDLE)

\* LoadBalancer.filter_available
filter_available(conns) ==
    SelectSeq(conns, LAMBDA c : state[c] = IDLE /\ is_connected(c))

\* the state get_connection leaves the connection it returns in: the code
\* returns the balancer's choice as it is
state_after_select(st) == st

\* ConnectionPool._create_connection, k times with a successful connect:
\* a new Connection (created_at = time.time(), last_used_at = 0.0) whose
\* connect() made it IDLE is appended to the list
create_connections(k) ==
    LET ids == NextId..(NextId + k - 1) IN
    /\ NextId + k - 1 <= MaxConnId
    /\ connections' = connections \o [i \in 1..k |-> NextId + i - 1]
    /\ state' = [c \in ConnId |-> IF c \in ids THEN IDLE ELSE state[c]]
    /\ socket' = [c \in ConnId |-> IF c \in ids THEN TRUE ELSE socket[c]]
    /\ lifetime' = [c \in ConnId |-> IF c \in ids THEN 0 ELSE lifetime[c]]
    /\ idle_time' = [c \in ConnId |-> IF c \in ids THEN OldIdle ELSE idle_time[c]]

\* mutant: _remove_connection closes conn but leaves it in the list
list_without_kept(conns, S) == conns

\* the list _remove_connection leaves: conn is taken out of it
list_without(conns, S) == SelectSeq(conns, LAMBDA c : c \notin S)

\* Connection.close for every connection of S; the times of a connection
\* that left the list are never read again and are not followed further
close_connections(S) ==
    /\ state' = [c \in ConnId |-> IF c \in S THEN CLOSED ELSE state[c]]
    /\ socket' = [c \in ConnId |-> IF c \in S THEN FALSE ELSE socket[c]]
    /\ lifetime' = [c \in ConnId |-> IF c \in S THEN 0 ELSE lifetime[c]]
    /\ idle_time' = [c \in ConnId |-> IF c \in S THEN 0 ELSE idle_time[c]]

\* ConnectionPool._remove_connection for every connection of S: one that is
\* in the list is closed and removed from the list
remove_connections(S) ==
    LET R == S \cap Range(connections) IN
    /\ connections' = list_without(connections, R)
    /\ close_connections(R)

(* ------------------- health checker, registrar, discovery -------------- *)
\* service instances the model follows (register draws a fresh uuid4 each)
MaxInstance == 2
\* HealthCheck.retries of every check (a configuration parameter)
retries == 2
\* watch events of one service name that may wait to be processed
MaxEvents == 1
\* _keep_alive tasks of one key that are counted
MaxKeepAlive == 2
\* cancelled health-check tasks that run on, followed at a time
MaxOrphans == 1

InstanceId == 1..MaxInstance
ServiceName == {"a", "b"}
\* check['name'] of the checks a service is registered with
CheckLabel == {"ping"}
\* the names of the health checks, f"{service_id}_{check['name']}"
CheckName == InstanceId \X CheckLabel

\* HealthStatus (health.py 10-14)
UNKNOWN == "unknown"
HEALTHY == "healthy"
UNHEALTHY == "unhealthy"
\* HealthResult.error is None
NoError == "None"

\* no entry under a name in _results, and no task under a name in _tasks
NoResult == [status |-> "absent", error |-> NoError]
NoTask == [pc |-> "absent", i |-> 0, status |-> "absent", error |-> NoError,
           ok |-> FALSE]

\* the check functions (probes) the model tells apart
Probes == {"f1", "f2"}
\* no check function: the name has no entry
NoFunc == "none"
\* no cancelled task of a name runs on
NoOrphan == [task |-> NoTask, func |-> NoFunc]

\* HealthChecker.__init__
HealthInit ==
    /\ hc_stopped = FALSE
    /\ checks = {}
    /\ results = [n \in CheckName |-> NoResult]
    /\ tasks = [n \in CheckName |-> NoTask]
    /\ check_func = [n \in CheckName |-> NoFunc]
    /\ task_func = [n \in CheckName |-> NoFunc]
    /\ orphans = [n \in CheckName |-> NoOrphan]

\* what a registrar operation records: its name, the instance id it was
\* called with or made, what the discovery answered (True where it was not
\* asked) and what the operation returned or raised
RegOp(name, id, success, ret) ==
    [op |-> name, id |-> id, success |-> success, ret |-> ret]

\* ServiceRegistrar.__init__
RegistrarInit ==
    /\ registered_services = {}
    /\ service_checks = [i \in InstanceId |-> {}]
    /\ returned = [i \in InstanceId |-> "no"]
    /\ reg_last = RegOp("none", None, TRUE, "none")
    /\ monitored = [i \in InstanceId |-> {}]
    /\ registry = {}

\* no entry under a service name in ServiceDiscovery._cache
NotCached == [hit |-> FALSE, services |-> {}]

\* what a discovery operation records: its name, the service name and the
\* instance id it was called with, the instances it returned and whether it
\* got its answer from etcd (or from the cache) without an exception
DiscOp(name, n, id, services, ok) ==
    [op |-> name, name |-> n, id |-> id, services |-> services, ok |-> ok]

\* ServiceDiscovery.__init__, on an etcd that holds no service
DiscoveryInit ==
    /\ etcd = {}
    /\ cache = [n \in ServiceName |-> NotCached]
    /\ watchers = {}
    /\ events = [n \in ServiceName |-> 0]
    /\ d_stopped = FALSE
    /\ d_last = DiscOp("none", "none", None, {}, TRUE)
    /\ keep_alive = [k \in ServiceName \X InstanceId |-> 0]

(* ---------------------------- async bridges ---------------------------- *)
\* msg_ids the model follows (call_async draws a fresh uuid4 each)
MaxMsgId == 4
\* the cap on pending requests the specification asks for, scaled
PendingCap == 2

MsgId == 1..MaxMsgId
\* _cleanup_expired line 66: an entry is expired once its age exceeds an
\* hour (expiry, in hours); the age is followed up to the first value
\* beyond that
expiry == 1
Expired == expiry + 1
\* no entry under a msg_id in pending_callbacks
NoEntry == -1

\* what a bridge operation records
BridgeOp(name, m, raised) == [op |-> name, msg_id |-> m, raised |-> raised]

\* AsyncBridge.__init__ (core/async_adapter.py)
BridgeInit ==
    /\ pending_callbacks = {}
    /\ invoked = [m \in MsgId |-> 0]
    /\ asked = {}
    /\ responded = {}
    /\ b_last = BridgeOp("none", None, FALSE)

\* IpcClient.__init__ and AsyncBridge.__init__ (client.py)
ClientInit ==
    /\ client_pending = [m \in MsgId |-> NoEntry]
    /\ completed = {}
    /\ issued = {}
    /\ c_last = BridgeOp("none", None, FALSE)

(* ------------------------------ wire codecs ---------------------------- *)
\* longest str of a message field, in characters
MaxText == 1
\* longest data or payload, in bytes
MaxData == 1

Byte == 0..255

\* the characters strs are made of: "a" and "é" (two bytes in UTF-8)
Chars == {97, 233}
\* the bytes data and payloads are made of
DataBytes == {0, 255}

\* the sequences of at most n elements of S
SeqUpTo(S, n) == UNION {[1..k -> S] : k \in 0..n}

Text == SeqUpTo(Chars, MaxText)
Data == SeqUpTo(DataBytes, MaxData)

\* "error" and "true", as characters
str_error == <<101, 114, 114, 111, 114>>
str_true == <<116, 114, 117, 101>>

\* the metadata dicts the workers send, as sets of <<key, value>>:
\* {} and {"error": "true"}
MetaValues == {{}, {<<str_error, str_true>>}}

\* MessageType of neo_client.py: REQUEST, RESPONSE, REGISTER, HEARTBEAT
REQUEST == 1
RESPONSE == 2
REGISTER == 3
HEARTBEAT == 4
MessageType == {REQUEST, RESPONSE, REGISTER, HEARTBEAT}

\* Message of neo_client.py
Message(msg_type, id, service, method, data, metadata) ==
    [msg_type |-> msg_type, id |-> id, service |-> service,
     method |-> method, data |-> data, metadata |-> metadata]

\* what a decoder returns: a message, or an exception
Delivered(msg) == [status |-> "ok", msg |-> msg]
Failed == [status |-> "error", msg |-> <<>>]
NotDecoded == [status |-> "none", msg |-> <<>>]

\* nothing has been written
CodecInit ==
    /\ encoded = [framing |-> "none", msg |-> <<>>]
    /\ wire = <<>>
    /\ corrupted = FALSE
    /\ decoded = NotDecoded

\* b[from:to] of Python, on bytes
slice(b, from, to) == SubSeq(b, from + 1, Min(to, Len(b)))

\* mutant: the length is written most significant byte first
pack_le32_big(n) ==
    <<n \div 16777216, (n \div 65536) % 256, (n \div 256) % 256, n % 256>>

\* struct.pack('<I', n): four bytes, least significant first
pack_le32(n) ==
    <<n % 256, (n \div 256) % 256, (n \div 65536) % 256, n \div 16777216>>

\* struct.unpack('<I', b)[0]
unpack_le32(b) == b[1] + 256 * b[2] + 65536 * b[3] + 16777216 * b[4]

\* str.encode(): UTF-8, of characters below U+0800
RECURSIVE utf8_encode(_)
utf8_encode(str) ==
    IF str = <<>> THEN <<>>
    ELSE LET c == Head(str) IN
         (IF c < 128 THEN <<c>>
          ELSE <<192 + (c \div 64), 128 + (c % 64)>>)
            \o utf8_encode(Tail(str))

\* a UTF-8 continuation byte
is_continuation(b, i) == i <= Len(b) /\ b[i] >= 128 /\ b[i] <= 191

\* bytes.decode(): the characters, or UnicodeDecodeError (ok = FALSE) for a
\* byte sequence that is not UTF-8
RECURSIVE utf8_decode(_)
utf8_decode(b) ==
    IF b = <<>> THEN [ok |-> TRUE, str |-> <<>>]
    ELSE LET n == IF b[1] < 128 THEN 1
                  ELSE IF b[1] >= 194 /\ b[1] <= 223 THEN 2
                  ELSE IF b[1] >= 224 /\ b[1] <= 239 THEN 3
                  ELSE IF b[1] >= 240 /\ b[1] <= 244 THEN 4
                  ELSE 0
             well_formed ==
                 /\ n > 0
                 /\ \A i \in 2..n : is_continuation(b, i)
                 /\ b[1] = 224 => b[2] >= 160
                 /\ b[1] = 237 => b[2] <= 159
                 /\ b[1] = 240 => b[2] >= 144
                 /\ b[1] = 244 => b[2] <= 143
             c == IF n = 1 THEN b[1]
                  ELSE IF n = 2 THEN (b[1] - 192) * 64 + (b[2] - 128)
                  ELSE IF n = 3 THEN (b[1] - 224) * 4096 + (b[2] - 128) * 64
                                       + (b[3] - 128)
                  ELSE (b[1] - 240) * 262144 + (b[2] - 128) * 4096
                         + (b[3] - 128) * 64 + (b[4] - 128)
         IN IF ~well_formed THEN [ok |-> FALSE, str |-> <<>>]
            ELSE LET rest == utf8_decode(SubSeq(b, n + 1, Len(b))) IN
                 [ok |-> rest.ok, str |-> <<c>> \o rest.str]

\* json.dumps(metadata) of a dict of at most one entry: {} or {"k": "v"}
json_dumps(metadata) ==
    IF metadata = {} THEN <<123, 125>>
    ELSE LET kv == CHOOSE e \in metadata : TRUE IN
         <<123, 34>> \o kv[1] \o <<34, 58, 32, 34>> \o kv[2] \o <<34, 125>>

\* json.loads(text): the dict whose JSON text this is, or an exception
json_loads(text) ==
    IF \E m \in MetaValues : json_dumps(m) = text
    THEN [ok |-> TRUE, value |-> CHOOSE m \in MetaValues : json_dumps(m) = text]
    ELSE [ok |-> FALSE, value |-> {}]

\* _send_message lines 82, 86, 90, 93, 96: struct.pack('<I', len(b)) + b
length_prefixed(b) == pack_le32(Len(b)) \o b

\* NeoIPCClient._send_message: the bytes written for msg
send_message_bytes(msg) ==
    LET msg_bytes == <<msg.msg_type>>
            \o length_prefixed(utf8_encode(msg.id))
            \o length_prefixed(utf8_encode(msg.service))
            \o length_prefixed(utf8_encode(msg.method))
            \o length_prefixed(utf8_encode(json_dumps(msg.metadata)))
            \o length_prefixed(msg.data)
    IN length_prefixed(msg_bytes)

\* _read_message: the length at offset and the bytes it announces;
\* struct.unpack raises on fewer than four bytes, the slice is cut at the
\* end of the message
read_field(msg_bytes, offset) ==
    LET len_bytes == slice(msg_bytes, offset, offset + 4) IN
    IF Len(len_bytes) < 4
    THEN [ok |-> FALSE, bytes |-> <<>>, next |-> offset]
    ELSE LET n == unpack_le32(len_bytes) IN
         [ok |-> TRUE,
          bytes |-> slice(msg_bytes, offset + 4, offset + 4 + n),
          next |-> offset + 4 + n]

\* NeoIPCClient._read_message on a stream that holds the bytes in stream and
\* then ends
read_message_result(stream) ==
    IF Len(stream) < 4 THEN Failed
    ELSE
    LET msg_len == unpack_le32(slice(stream, 0, 4)) IN
    IF Len(stream) - 4 < msg_len \/ msg_len = 0 THEN Failed
    ELSE
    LET msg_bytes == slice(stream, 4, 4 + msg_len)
        f_id == read_field(msg_bytes, 1)
        f_service == read_field(msg_bytes, f_id.next)
        f_method == read_field(msg_bytes, f_service.next)
        f_metadata == read_field(msg_bytes, f_method.next)
        f_data == read_field(msg_bytes, f_metadata.next)
        id == utf8_decode(f_id.bytes)
        service == utf8_decode(f_service.bytes)
        method == utf8_decode(f_method.bytes)
        metadata_json == utf8_decode(f_metadata.bytes)
        metadata == IF metadata_json.str = <<>>
                    THEN [ok |-> TRUE, value |-> {}]
                    ELSE json_loads(metadata_json.str)
    IN IF /\ msg_bytes[1] \in MessageType
          /\ f_id.ok /\ id.ok
          /\ f_service.ok /\ service.ok
          /\ f_method.ok /\ method.ok
          /\ f_metadata.ok /\ metadata_json.ok /\ metadata.ok
          /\ f_data.ok
       THEN Delivered(Message(msg_bytes[1], id.str, service.str, method.str,
                              f_data.bytes, metadata.value))
       ELSE Failed

\* MessageType of protocol.py (REQUEST, RESPONSE, ERROR, HEARTBEAT) and
\* Priority (LOW, NORMAL, HIGH, URGENT)
HeaderMessageType == 1..4
Priority == 0..3

\* the compression algorithms, by the first letter of their name:
\* ord('n'), ord('g'), ord('z'), ord('l')
Algorithms == {"none", "gzip", "zstd", "lz4"}
first_letter(algorithm) ==
    CASE algorithm = "none" -> 110
      [] algorithm = "gzip" -> 103
      [] algorithm = "zstd" -> 122
      [] algorithm = "lz4" -> 108

\* MessageHeader.unpack lines 76-77: comp_map.get(chr(c).lower(), 'none')
comp_map(c) ==
    LET lower == IF c >= 65 /\ c <= 90 THEN c + 32 ELSE c IN
    CASE lower = 110 -> "none"
      [] lower = 103 -> "gzip"
      [] lower = 122 -> "zstd"
      [] lower = 108 -> "lz4"
      [] OTHER -> "none"

\* the first bytes of what gzip.compress, zstd.compress and
\* lz4.frame.compress return: the magic number of the format
magic(algorithm) ==
    CASE algorithm = "none" -> <<>>
      [] algorithm = "gzip" -> <<31, 139>>
      [] algorithm = "zstd" -> <<40, 181, 47, 253>>
      [] algorithm = "lz4" -> <<4, 34, 77, 24>>

\* CompressionManager.compress: 'none' returns the data; a compressed
\* container is its magic number and then a body that stands for the data
compress(algorithm, data) == magic(algorithm) \o data

\* CompressionManager.decompress: 'none' returns the data; the others raise
\* on bytes that are not a container of their format
decompress(algorithm, data) ==
    LET m == magic(algorithm) IN
    IF Len(data) >= Len(m) /\ SubSeq(data, 1, Len(m)) = m
    THEN [ok |-> TRUE, data |-> SubSeq(data, Len(m) + 1, Len(data))]
    ELSE [ok |-> FALSE, data |-> <<>>]

\* a 32-bit word as the set of its one bits, bit 0 the least significant
bits_of_byte(b) == {i \in 0..7 : (b \div (2 ^ i)) % 2 = 1}
xor(v, w) == (v \ w) \cup (w \ v)

\* the CRC-32 polynomial 0xEDB88320
crc_polynomial == {31, 30, 29, 27, 26, 24, 23, 21, 20, 19, 15, 9, 8, 5}

\* one bit of the CRC: shift right, and xor the polynomial if a one fell out
crc_shift(reg) ==
    LET shifted == {i - 1 : i \in reg \ {0}} IN
    IF 0 \in reg THEN xor(shifted, crc_polynomial) ELSE shifted

\* one byte of the CRC
crc_byte(reg, b) ==
    crc_shift(crc_shift(crc_shift(crc_shift(
      crc_shift(crc_shift(crc_shift(crc_shift(xor(reg, bits_of_byte(b))))))))))

RECURSIVE crc_register(_, _)
crc_register(reg, data) ==
    IF data = <<>> THEN reg
    ELSE crc_register(crc_byte(reg, Head(data)), Tail(data))

\* byte k of a word (k = 0 the least significant)
byte_of_word(w, k) ==
    LET bit(i) == IF 8 * k + i \in w THEN 2 ^ i ELSE 0 IN
    bit(0) + bit(1) + bit(2) + bit(3) + bit(4) + bit(5) + bit(6) + bit(7)

\* struct.pack('!L', w) of a word: four bytes, most significant first
pack_word(w) ==
    <<byte_of_word(w, 3), byte_of_word(w, 2), byte_of_word(w, 1),
      byte_of_word(w, 0)>>

\* Protocol._calculate_checksum: zlib.crc32(data) & 0xFFFFFFFF, as the four
\* bytes the header carries it in
calculate_checksum(data) ==
    pack_word((0..31) \ crc_register(0..31, data))

\* struct.pack('!I', n) and struct.pack('!L', n) of a number below 2^31
pack_be32(n) ==
    <<n \div 16777216, (n \div 65536) % 256, (n \div 256) % 256, n % 256>>

\* one of the strs str(uuid.uuid4()) returns:
\* "aaaaaaaa-aaaa-4aaa-aaaa-aaaaaaaaaaaa"
generate_trace_id ==
    [i \in 1..36 |-> IF i \in {9, 14, 19, 24} THEN 45
                     ELSE IF i = 15 THEN 52 ELSE 97]

\* MessageHeader.HEADER_SIZE, struct.calcsize('!BBBB36sLIL')
HEADER_SIZE == 52

\* MessageHeader.pack with version 1; timestamp is int(time.time())
header_pack(msg_type, algorithm, priority, trace_id, timestamp, payload_size, checksum) ==
    <<1, msg_type, first_letter(algorithm), priority>>
        \o utf8_encode(trace_id)
        \o pack_be32(timestamp) \o pack_be32(payload_size) \o checksum

\* Protocol.pack, of a Protocol made with the algorithm
pack_bytes(algorithm, payload, msg_type, priority) ==
    LET compressed_payload == compress(algorithm, payload) IN
    header_pack(msg_type, algorithm, priority, generate_trace_id, Epoch,
                Len(compressed_payload),
                calculate_checksum(compressed_payload))
        \o compressed_payload

\* str.strip('\x00')
RECURSIVE strip_nul(_)
strip_nul(str) ==
    IF str = <<>> THEN <<>>
    ELSE IF Head(str) = 0 THEN strip_nul(Tail(str))
    ELSE IF str[Len(str)] = 0 THEN strip_nul(SubSeq(str, 1, Len(str) - 1))
    ELSE str

\* MessageHeader.unpack: the header, or ProtocolError.  The numbers of the
\* size and checksum fields are kept as their four bytes.
header_unpack(data) ==
    IF Len(data) < HEADER_SIZE THEN [ok |-> FALSE]
    ELSE LET trace_id == utf8_decode(SubSeq(data, 5, 40)) IN
         IF /\ data[2] \in HeaderMessageType
            /\ data[4] \in Priority
            /\ trace_id.ok
         THEN [ok |-> TRUE,
               version |-> data[1],
               msg_type |-> data[2],
               compression |-> comp_map(data[3]),
               priority |-> data[4],
               trace_id |-> strip_nul(trace_id.str),
               timestamp |-> SubSeq(data, 41, 44),
               payload_size |-> SubSeq(data, 45, 48),
               checksum |-> SubSeq(data, 49, 52)]
         ELSE [ok |-> FALSE]

\* Protocol.unpack: a Message (header and payload), or ProtocolError
unpack_result(data) ==
    LET header == header_unpack(data)
        payload_data == SubSeq(data, HEADER_SIZE + 1, Len(data))
    IN IF ~header.ok THEN Failed
       ELSE IF pack_be32(Len(payload_data)) # header.payload_size THEN Failed
       ELSE IF calculate_checksum(payload_data) # header.checksum THEN Failed
       ELSE LET payload == decompress(header.compression, payload_data) IN
            IF ~payload.ok THEN Failed
            ELSE Delivered([header |-> header, payload |-> payload.data])

\* the byte b with bit k changed
flip(b, k) == IF k \in bits_of_byte(b) THEN b - 2 ^ k ELSE b + 2 ^ k

(* -------------------------------- workers ------------------------------ *)
\* how many frames the hub writes to a worker
MaxFrames == 3

\* the two classes named NeoIPCClient
WorkerClass == {"neo_client", "service"}

\* the methods of the requests: one whose handler returns, one whose
\* handler raises, and one that has no handler
Methods == {"echo", "fail", "unknown"}
\* NeoIPCClient.handlers, as register_handler has filled it
handlers == {"echo", "fail"}
\* the handler of the method raises
handler_raises(method) == method = "fail"

\* a byte that is no MessageType: MessageType(b) raises ValueError
NoType == 0

\* the frames of the hub: the id of a frame is its number
Frame(msg_type, id, method) ==
    [msg_type |-> msg_type, id |-> id, method |-> method]

\* NeoIPCClient.__init__: not connected
WorkerInit ==
    /\ worker = "none"
    /\ inbox = <<>>
    /\ arrived = 0
    /\ read_ids = {}
    /\ handling = {}
    /\ written = <<>>
    /\ listening = FALSE
    /\ writes_out = <<>>
    /\ task_pc = [id \in 1..MaxFrames |-> "none"]
    /\ to_write = [id \in 1..MaxFrames |-> <<>>]

(* --------------------------- ConnectionPool --------------------------- *)
\* create_balancer: the balancers as their constructors leave them
BalancerInit ==
    /\ total_requests = [c \in ConnId |-> 0]
    /\ avg_response_time = [c \in ConnId |-> 0]
    /\ current_index = 0
    /\ last_response_times = [c \in ConnId |-> 0]
    /\ current_time = Epoch
    /\ selected = [strategy |-> "none", conn |-> None]
    /\ last_used_at = [c \in ConnId |-> 0]
    /\ rr_returned = <<>>

Init ==
    /\ constructed = FALSE
    /\ stopped = FALSE
    /\ connections = <<>>
    /\ state = [c \in ConnId |-> "none"]
    /\ socket = [c \in ConnId |-> FALSE]
    /\ lifetime = [c \in ConnId |-> 0]
    /\ idle_time = [c \in ConnId |-> 0]
    /\ handed = [c \in ConnId |-> 0]
    /\ connect_failed = FALSE
    /\ last = Op("none", None, FALSE)
    /\ BalancerInit
    /\ HealthInit /\ RegistrarInit /\ DiscoveryInit
    /\ BridgeInit /\ ClientInit
    /\ CodecInit /\ WorkerInit

\* ConnectionPool.__init__ / _initialize_pool: min_size connection attempts,
\* k of which succeed; then the management threads are started
initialize_pool ==
    /\ ~constructed
    /\ \E k \in 0..min_size :
         /\ create_connections(k)
         /\ connect_failed' = (connect_failed \/ k < min_size)
         /\ last' = Op("__init__", None, k < min_size)
    /\ constructed' = TRUE
    /\ UNCHANGED <<stopped, handed>>
    /\ UNCHANGED not_pool

\* mutant: _create_connection appends the Connection whatever connect() said
appended_on_connect_always(ok) == TRUE

\* _create_connection lines 64-65: the new Connection is appended, and
\* returned, when its connect() succeeded
appended_on_connect(ok) == ok

\* mutant: get_connection compares with <= and creates one too many
below_max_off_by_one(total) == total <= max_size

\* get_connection line 211: a new connection may be created
below_max(total) == total < max_size

\* ConnectionPool.get_connection (random strategy: any available connection)
get_connection ==
    /\ constructed
    /\ LET available == filter_available(connections) IN
       IF available # <<>>
       THEN \E c \in Range(available) :
              /\ Outstanding < MaxHandout
              /\ handed' = [handed EXCEPT ![c] = @ + 1]
              /\ state' = [state EXCEPT ![c] = state_after_select(@)]
              /\ last' = Op("get_connection", c, FALSE)
              /\ UNCHANGED <<connections, socket, lifetime, idle_time,
                             connect_failed>>
       ELSE IF below_max(Len(connections))
       THEN \E ok \in BOOLEAN :
              /\ connect_failed' = (connect_failed \/ ~ok)
              /\ IF appended_on_connect(ok)
                 THEN /\ Outstanding < MaxHandout
                      /\ create_connections(1)
                      /\ handed' = [handed EXCEPT ![NextId] = 1]
                      /\ last' = Op("get_connection", NextId, ~ok)
                 ELSE /\ last' = Op("get_connection", None, ~ok)
                      /\ UNCHANGED <<connections, state, socket, lifetime,
                                     idle_time, handed>>
       ELSE /\ last' = Op("get_connection", None, FALSE)
            /\ UNCHANGED <<connections, state, socket, lifetime,
                           idle_time, handed, connect_failed>>
    /\ UNCHANGED <<constructed, stopped>>
    /\ UNCHANGED not_pool

\* mutant: return_connection removes every connection that is not IDLE
removed_on_return_not_idle(st) == st # IDLE

\* mutant: return_connection never removes, it sets IDLE
removed_on_return_never(st) == FALSE

\* return_connection line 223: an ERROR connection is removed
removed_on_return(st) == st = ERROR

\* ConnectionPool.return_connection(c), by a caller that was handed c
return_connection(c) ==
    /\ constructed
    /\ handed[c] > 0
    /\ IF removed_on_return(state[c])
       THEN remove_connections({c})
       ELSE /\ state' = [state EXCEPT ![c] = IDLE]
            /\ UNCHANGED <<connections, socket, lifetime, idle_time>>
    /\ handed' = [handed EXCEPT ![c] = @ - 1]
    /\ last' = Op("return_connection", c, FALSE)
    /\ UNCHANGED <<constructed, stopped, connect_failed>>
    /\ UNCHANGED not_pool

\* Connection.send(data) on a connection the caller was handed; ok tells
\* whether socket.sendall succeeds
send(c, ok) ==
    /\ handed[c] > 0
    /\ IF ~is_connected(c)
       THEN UNCHANGED <<state, idle_time>>
       ELSE /\ state' = [state EXCEPT ![c] = IF ok THEN BUSY ELSE ERROR]
            /\ idle_time' = [idle_time EXCEPT ![c] = 0]
    /\ last' = SocketOp("send", c, is_connected(c) /\ ~ok)
    /\ UNCHANGED <<constructed, stopped, connections, socket, lifetime,
                   handed, connect_failed>>
    /\ UNCHANGED not_pool

\* Connection.receive() on a connection the caller was handed; ok tells
\* whether socket.recv returns (data or end of stream) or raises.  The
\* except clause sets ERROR and the finally clause then sets IDLE.
receive(c, ok) ==
    /\ handed[c] > 0
    /\ IF ~is_connected(c)
       THEN UNCHANGED state
       ELSE state' = [state EXCEPT ![c] = IDLE]
    /\ last' = SocketOp("receive", c, is_connected(c) /\ ~ok)
    /\ UNCHANGED <<constructed, stopped, connections, socket, lifetime,
                   idle_time, handed, connect_failed>>
    /\ UNCHANGED not_pool

\* _check_connections_health: the connections one pass removes
unhealthy(c) ==
    \/ state[c] = IDLE /\ idle_time[c] > idle_timeout
    \/ lifetime[c] > max_lifetime
    \/ state[c] = ERROR

\* ConnectionPool._check_connections_health, one tick of the health worker
check_connections_health ==
    /\ constructed /\ ~stopped
    /\ remove_connections({c \in Range(connections) : unhealthy(c)})
    /\ last' = Op("health", None, FALSE)
    /\ UNCHANGED <<constructed, stopped, handed, connect_failed>>
    /\ UNCHANGED not_pool

\* ConnectionPool has an attribute `config`: __init__ never assigns one
pool_has_config == FALSE

\* _auto_scale line 124 and 130: usage_ratio > scale_up_threshold
usage_above_threshold(active, total) ==
    IF total > 0
    THEN active * scale_up_threshold_den > scale_up_threshold_num * total
    ELSE scale_up_threshold_den > scale_up_threshold_num

\* _auto_scale lines 148-153: the first n IDLE connections in list order
first_idle(conns, n) ==
    {conns[i] : i \in {j \in 1..Len(conns) :
        /\ state[conns[j]] = IDLE
        /\ Cardinality({h \in 1..(j-1) : state[conns[h]] = IDLE}) < n}}

\* ConnectionPool._auto_scale, one tick of the auto-scale worker: reading
\* self.config raises AttributeError, which _auto_scale_worker logs
auto_scale ==
    /\ constructed /\ ~stopped
    /\ LET total_conns == Len(connections)
           active_conns == Cardinality({c \in Range(connections) : state[c] = BUSY})
           idle_conns == total_conns - active_conns
           new_conns == Min(scale_step, max_size - total_conns)
       IN
       IF ~pool_has_config
       THEN /\ last' = Op("auto_scale", None, FALSE)
            /\ UNCHANGED <<connections, state, socket, lifetime,
                           idle_time, connect_failed>>
       ELSE IF usage_above_threshold(active_conns, total_conns)
               /\ total_conns < max_size
       THEN \E k \in 0..new_conns :
              /\ create_connections(k)
              /\ connect_failed' = (connect_failed \/ k < new_conns)
              /\ last' = Op("auto_scale", None, k < new_conns)
       ELSE IF idle_conns > scale_down_idle_threshold /\ total_conns > min_size
       THEN /\ remove_connections(first_idle(connections,
                     Min(idle_conns - 1, total_conns - min_size)))
            /\ last' = Op("auto_scale", None, FALSE)
            /\ UNCHANGED connect_failed
       ELSE /\ last' = Op("auto_scale", None, FALSE)
            /\ UNCHANGED <<connections, state, socket, lifetime,
                           idle_time, connect_failed>>
    /\ UNCHANGED <<constructed, stopped, handed>>
    /\ UNCHANGED not_pool

\* mutant: close() closes the first connection of the list only
closed_by_close_first(conns) == IF conns = <<>> THEN {} ELSE {conns[1]}

\* close lines 290-291: the connections close() closes, every one of the list
closed_by_close(conns) == Range(conns)

\* ConnectionPool.close: every connection of the list is closed, the list
\* is cleared and the management loops stop
close ==
    /\ constructed
    /\ stopped' = TRUE
    /\ connections' = <<>>
    /\ close_connections(closed_by_close(connections))
    /\ last' = Op("close", None, FALSE)
    /\ UNCHANGED <<constructed, handed, connect_failed>>
    /\ UNCHANGED not_pool

\* time.time() advances by one unit: every connection of the list has
\* lived, and has been unused, for one unit longer
tick ==
    /\ \E c \in Range(connections) :
          lifetime[c] < OldLife \/ idle_time[c] < OldIdle
    /\ lifetime' = [c \in ConnId |-> IF c \in Range(connections)
                                     THEN Min(lifetime[c] + 1, OldLife)
                                     ELSE lifetime[c]]
    /\ idle_time' = [c \in ConnId |-> IF c \in Range(connections)
                                      THEN Min(idle_time[c] + 1, OldIdle)
                                      ELSE idle_time[c]]
    /\ UNCHANGED <<constructed, stopped, connections, state, socket,
                   handed, connect_failed, last>>
    /\ UNCHANGED not_pool

\* ConnectionPool.get_stats: the counts of the snapshot
get_stats ==
    LET count(st) == Cardinality({i \in 1..Len(connections) :
                                    state[connections[i]] = st})
    IN [total_connections |-> Len(connections),
        active_connections |-> count(BUSY),
        idle_connections |-> count(IDLE),
        error_connections |-> count(ERROR)]

\* the operations whose changes of a state and of the list are made inside
\* `with self._lock`: _initialize_pool, get_connection, the passes of the
\* two workers, close, and the _remove_connection return_connection calls
\* for an ERROR connection.  return_connection's `conn.state = IDLE`,
\* Connection.send and Connection.receive take no lock.
holds_lock(op, removes) ==
    \/ op \in {"__init__", "get_connection", "health", "auto_scale", "close"}
    \/ op = "return_connection" /\ removes

Next ==
    \/ initialize_pool
    \/ get_connection
    \/ \E c \in ConnId : return_connection(c)
    \/ \E c \in ConnId, ok \in BOOLEAN : send(c, ok)
    \/ \E c \in ConnId, ok \in BOOLEAN : receive(c, ok)
    \/ check_connections_health
    \/ auto_scale
    \/ close
    \/ tick

Spec == Init /\ [][Next]_vars

(* ---------------------------- load balancers --------------------------- *)
\* time.time() is followed from Epoch to Epoch + MaxTime
MaxTime == 1
\* largest request count and largest average response time of a connection
MaxStat == 1

\* the (socket, state) pairs a Connection object can be in: connect() gives
\* IDLE with a socket, send BUSY or ERROR, close() CLOSED without a socket,
\* and return_connection sets IDLE on a connection that was closed meanwhile
ConnectionShapes ==
    {<<TRUE, IDLE>>, <<TRUE, BUSY>>, <<TRUE, ERROR>>, <<FALSE, CLOSED>>,
     <<FALSE, IDLE>>}

\* a connection list of up to MaxConnId connections in any of their shapes,
\* handed to freshly made balancers.  The connections select can return
\* (IDLE and connected) have any statistics (an average needs a counted
\* request) and have been used at Epoch or never; the statistics of the
\* others, which no select reads, are those of a new connection.
BalancerSpecInit ==
    /\ constructed = TRUE /\ stopped = FALSE
    /\ \E n \in 0..MaxConnId : connections = [i \in 1..n |-> i]
    /\ state \in [ConnId -> ConnectionState \cup {"none"}]
    /\ \A c \in ConnId : (state[c] # "none") <=> (c \in Range(connections))
    /\ socket \in [ConnId -> BOOLEAN]
    /\ \A c \in ConnId : state[c] = "none" => ~socket[c]
    /\ \A c \in Range(connections) : <<socket[c], state[c]>> \in ConnectionShapes
    /\ lifetime = [c \in ConnId |-> 0]
    /\ last_used_at \in [ConnId -> {0, Epoch}]
    /\ \A c \in ConnId : ~is_connected(c) \/ state[c] # IDLE
                              => last_used_at[c] = 0
    /\ idle_time = [c \in ConnId |->
                      IF c \in Range(connections) /\ last_used_at[c] = 0
                      THEN OldIdle ELSE 0]
    /\ handed = [c \in ConnId |-> 0]
    /\ connect_failed = FALSE
    /\ last = Op("none", None, FALSE)
    /\ total_requests \in [ConnId -> 0..MaxStat]
    /\ avg_response_time \in [ConnId -> 0..MaxStat]
    /\ \A c \in ConnId :
          /\ ~is_connected(c) \/ state[c] # IDLE => total_requests[c] = 0
          /\ total_requests[c] = 0 => avg_response_time[c] = 0
    /\ current_index = 0
    /\ last_response_times = [c \in ConnId |-> 0]
    /\ current_time = Epoch
    /\ selected = [strategy |-> "none", conn |-> None]
    /\ rr_returned = <<>>
    /\ HealthInit /\ RegistrarInit /\ DiscoveryInit
    /\ BridgeInit /\ ClientInit
    /\ CodecInit /\ WorkerInit

\* what select returned
Selected(strategy, c) == [strategy |-> strategy, conn |-> c]

\* min(available, key=...): the first connection of the list with the
\* smallest key; key gives the key of every connection
first_min(available, key) ==
    available[CHOOSE i \in 1..Len(available) :
        /\ \A j \in 1..Len(available) : key[available[i]] <= key[available[j]]
        /\ \A j \in 1..(i - 1) : key[available[j]] > key[available[i]]]

\* RandomBalancer.select
select_random ==
    /\ LET available == filter_available(connections) IN
       IF available = <<>>
       THEN selected' = Selected("random", None)
       ELSE \E c \in Range(available) : selected' = Selected("random", c)
    /\ UNCHANGED <<total_requests, avg_response_time, current_index,
                   last_response_times, current_time, last_used_at,
                   rr_returned>>
    /\ UNCHANGED not_balancer

\* the results of the latest select calls, r the newest: as many as a list
\* can hold connections
latest(results_so_far, r) ==
    LET all == Append(results_so_far, r) IN
    IF Len(all) > MaxConnId THEN Tail(all) ELSE all

\* mutant: the index does not advance
next_index_same(index, available) == index % Len(available)

\* RoundRobinBalancer.select line 37
next_index(index, available) == (index + 1) % Len(available)

\* RoundRobinBalancer.select
select_round_robin ==
    /\ LET available == filter_available(connections) IN
       IF available = <<>>
       THEN /\ selected' = Selected("round_robin", None)
            /\ rr_returned' = latest(rr_returned, None)
            /\ UNCHANGED current_index
       ELSE /\ current_index' = next_index(current_index, available)
            /\ selected' = Selected("round_robin",
                                    available[current_index' + 1])
            /\ rr_returned' = latest(rr_returned,
                                     available[current_index' + 1])
    /\ UNCHANGED <<total_requests, avg_response_time, last_response_times,
                   current_time, last_used_at>>
    /\ UNCHANGED not_balancer

\* LeastConnectionsBalancer.select
select_least_connections ==
    /\ LET available == filter_available(connections) IN
       IF available = <<>>
       THEN selected' = Selected("least_connections", None)
       ELSE selected' = Selected("least_connections",
                first_min(available, total_requests))
    /\ UNCHANGED <<total_requests, avg_response_time, current_index,
                   last_response_times, current_time, last_used_at,
                   rr_returned>>
    /\ UNCHANGED not_balancer

\* ResponseTimeBalancer.select
select_response_time ==
    /\ LET available == filter_available(connections) IN
       IF available = <<>>
       THEN selected' = Selected("response_time", None)
       ELSE selected' = Selected("response_time",
                first_min(available, avg_response_time))
    /\ UNCHANGED <<total_requests, avg_response_time, current_index,
                   last_response_times, current_time, last_used_at,
                   rr_returned>>
    /\ UNCHANGED not_balancer

\* WeightedResponseTimeBalancer.select lines 76-87, a hundred times the
\* score: (0.7 * avg_response_time + 0.3 * last_time)
\*        * (1 + time_since_last_use * 0.1)
score(c, now) ==
    (7 * avg_response_time[c] + 3 * last_response_times[c])
        * (10 + (now - last_used_at[c]))

\* WeightedResponseTimeBalancer.select; now is what time.time() returns,
\* which is not less than what it returned before
select_weighted_response_time ==
    /\ \E now \in current_time..(Epoch + MaxTime) :
         LET available == filter_available(connections) IN
         IF available = <<>>
         THEN /\ selected' = Selected("weighted_response_time", None)
              /\ UNCHANGED <<last_response_times, current_time>>
         ELSE LET c == first_min(available, [k \in ConnId |-> score(k, now)]) IN
              /\ current_time' = now
              /\ last_response_times' =
                    [last_response_times EXCEPT ![c] = now]
              /\ selected' = Selected("weighted_response_time", c)
    /\ UNCHANGED <<total_requests, avg_response_time, current_index,
                   last_used_at, rr_returned>>
    /\ UNCHANGED not_balancer

\* the caller select returned a connection to uses it as the loop of
\* test_load_balancing does: conn.send(data), which succeeds, sets BUSY and
\* sets last_used_at to the time of the call, then
\* pool.return_connection(conn), which sets IDLE again
request(c) ==
    /\ selected.conn = c /\ c # None
    /\ is_connected(c)
    /\ \E now \in current_time..(Epoch + MaxTime) :
          /\ current_time' = now
          /\ last_used_at' = [last_used_at EXCEPT ![c] = now]
    /\ UNCHANGED <<total_requests, avg_response_time, current_index,
                   last_response_times, selected, rr_returned>>
    /\ UNCHANGED not_balancer

BalancerNext ==
    \/ select_random
    \/ select_round_robin
    \/ select_least_connections
    \/ select_response_time
    \/ select_weighted_response_time

SpecBalancer == BalancerSpecInit /\ [][BalancerNext]_vars

\* the weighted balancer alone, with the callers that use what it returns
WeightedNext ==
    \/ select_weighted_response_time
    \/ \E c \in ConnId : request(c)

SpecWeighted == BalancerSpecInit /\ [][WeightedNext]_vars

(* ----------------------------- HealthChecker --------------------------- *)
\* the outcomes of one probe attempt: check_func() returns in time,
\* asyncio.wait_for times out, or check_func() raises
ProbeOutcome == {"ok", "timeout", "raise"}

\* _run_check lines 136-145: error after an attempt
error_after(outcome) ==
    IF outcome = "ok" THEN NoError
    ELSE IF outcome = "timeout" THEN "Check timeout" ELSE "str(e)"

\* _run_check lines 127-145: status after an attempt; a success leaves the
\* status as the attempts before it set it
status_after(status, outcome) ==
    IF outcome = "ok" THEN status ELSE UNHEALTHY

\* HealthChecker.add_check(name, f) for every name of N: the entry of
\* _checks is replaced and the result reset, and a name that has no task in
\* _tasks gets one, which runs f; a task the name already has is left as it
\* is and goes on with the check_func it was started with (lines 61-66)
add_checks(N, f) ==
    /\ checks' = checks \cup N
    /\ check_func' = [n \in CheckName |-> IF n \in N THEN f ELSE check_func[n]]
    /\ results' = [n \in CheckName |->
                     IF n \in N THEN [status |-> UNKNOWN, error |-> NoError]
                     ELSE results[n]]
    /\ tasks' = [n \in CheckName |->
                   IF n \in N /\ tasks[n] = NoTask
                   THEN [NoTask EXCEPT !.pc = "loop"]
                   ELSE tasks[n]]
    /\ task_func' = [n \in CheckName |->
                       IF n \in N /\ tasks[n] = NoTask THEN f ELSE task_func[n]]
    /\ UNCHANGED orphans

\* Task.cancel() (lines 76 and 181) reaches a task that waits in
\* asyncio.wait_for for its probe.  When the probe has returned and
\* wait_for has not yet resumed, the wait_for of the Python versions that
\* run the probe in a task of its own (up to 3.11) returns the probe's
\* result and the CancelledError is lost.  The names of N whose task may go
\* on in that way; the model follows MaxOrphans such tasks at a time
may_survive(N) ==
    IF Cardinality({m \in CheckName : orphans[m] # NoOrphan}) < MaxOrphans
    THEN {n \in N : tasks[n].pc = "probe" /\ orphans[n] = NoOrphan}
    ELSE {}

\* HealthChecker.remove_check for every name of N: the task is cancelled and
\* the three entries are deleted; S are the names whose task goes on
\* although it was cancelled, with its probe returned
remove_checks(N, S) ==
    /\ S \subseteq may_survive(N)
    /\ Cardinality({m \in CheckName : orphans[m] # NoOrphan} \cup S) <= MaxOrphans
    /\ checks' = checks \ N
    /\ check_func' = [n \in CheckName |-> IF n \in N THEN NoFunc ELSE check_func[n]]
    /\ results' = [n \in CheckName |-> IF n \in N THEN NoResult ELSE results[n]]
    /\ tasks' = [n \in CheckName |-> IF n \in N THEN NoTask ELSE tasks[n]]
    /\ task_func' = [n \in CheckName |-> IF n \in N THEN NoFunc ELSE task_func[n]]
    /\ orphans' = [n \in CheckName |->
                     IF n \in S
                     THEN [task |-> [tasks[n] EXCEPT !.pc = "returned"],
                           func |-> task_func[n]]
                     ELSE orphans[n]]

add_check(n, f) ==
    /\ add_checks({n}, f)
    /\ UNCHANGED <<hc_stopped, registrar_vars>>
    /\ UNCHANGED not_health

remove_check(n) ==
    /\ \E S \in SUBSET may_survive({n}) : remove_checks({n}, S)
    /\ UNCHANGED <<hc_stopped, registrar_vars>>
    /\ UNCHANGED not_health

\* _run_check lines 122-127: the `while not self._stopped` test and the
\* start of a cycle, of the task record t
cycle_started(t) ==
    IF hc_stopped
    THEN [t EXCEPT !.pc = "done"]
    ELSE [pc |-> "probe", i |-> 0, status |-> HEALTHY,
          error |-> NoError, ok |-> FALSE]

\* _run_check lines 129-149: the task record after one attempt of the
\* cycle; the attempt that succeeds, or the last of `retries` attempts,
\* ends the cycle
after_attempt(t, outcome) ==
    [pc |-> IF outcome = "ok" \/ t.i + 1 = retries THEN "loop" ELSE "probe",
     i |-> t.i + 1,
     status |-> status_after(t.status, outcome),
     error |-> error_after(outcome),
     ok |-> (outcome = "ok")]

\* _run_check line 122-127: the task tests _stopped and starts a cycle
start_cycle(n) ==
    /\ tasks[n].pc = "loop"
    /\ tasks' = [tasks EXCEPT ![n] = cycle_started(@)]
    /\ UNCHANGED <<hc_stopped, checks, results, check_func, task_func,
                   orphans, registrar_vars>>
    /\ UNCHANGED not_health

\* _run_check lines 129-157: one attempt of the cycle; the attempt that
\* succeeds, or the last of `retries` attempts, is followed by the
\* publication of the result and the wait for the next cycle
probe(n, outcome) ==
    /\ tasks[n].pc = "probe"
    /\ LET t == after_attempt(tasks[n], outcome) IN
       /\ tasks' = [tasks EXCEPT ![n] = t]
       /\ IF t.pc = "loop"
          THEN results' = [results EXCEPT ![n] =
                             [status |-> t.status, error |-> t.error]]
          ELSE UNCHANGED results
    /\ UNCHANGED <<hc_stopped, checks, check_func, task_func, orphans,
                   registrar_vars>>
    /\ UNCHANGED not_health

\* _run_check lines 122-157, of a task that runs on after its cancellation:
\* the attempt whose result wait_for returned ends the cycle and line 152
\* writes the result under the name, whatever remove_check deleted; then
\* the `while not self._stopped` test, which ends the task after a close(),
\* and the attempts of the cycles that follow
orphan_step(n, outcome) ==
    /\ orphans[n] # NoOrphan
    /\ LET o == orphans[n]
           t == IF o.task.pc = "loop" THEN cycle_started(o.task)
                ELSE after_attempt(o.task, outcome)
       IN
       /\ o.task.pc = "returned" => outcome = "ok"
       /\ o.task.pc = "loop" => outcome = "ok"
       /\ orphans' = [orphans EXCEPT ![n] =
                        IF t.pc = "done" THEN NoOrphan
                        ELSE IF t.pc = "loop"
                        THEN [o EXCEPT !.task = [NoTask EXCEPT !.pc = "loop"]]
                        ELSE [o EXCEPT !.task = t]]
       /\ IF o.task.pc # "loop" /\ t.pc = "loop"
          THEN results' = [results EXCEPT ![n] =
                             [status |-> t.status, error |-> t.error]]
          ELSE UNCHANGED results
    /\ UNCHANGED <<hc_stopped, checks, tasks, check_func, task_func,
                   registrar_vars>>
    /\ UNCHANGED not_health

\* HealthChecker.close
health_close ==
    /\ hc_stopped' = TRUE
    /\ \E S \in SUBSET may_survive(CheckName) : remove_checks(CheckName, S)
    /\ UNCHANGED registrar_vars
    /\ UNCHANGED not_health

HealthNext ==
    \/ \E n \in CheckName, f \in Probes : add_check(n, f)
    \/ \E n \in CheckName : remove_check(n)
    \/ \E n \in CheckName : start_cycle(n)
    \/ \E n \in CheckName, outcome \in ProbeOutcome : probe(n, outcome)
    \/ \E n \in CheckName, outcome \in ProbeOutcome : orphan_step(n, outcome)
    \/ health_close

SpecHealth == Init /\ [][HealthNext]_vars

(* ---------------------------- ServiceDiscovery ------------------------- *)
\* _run_in_executor hands its keyword arguments on to loop.run_in_executor,
\* which accepts none: put(key, value, lease=lease) raises TypeError
run_in_executor_takes_kwargs == FALSE

\* discover_service lines 156-166: the instances get_prefix finds under
\* the prefix of service name n
lookup(n) == {i \in InstanceId : <<n, i>> \in etcd}

\* etcd tells the watcher of service name n, if there is one, of a change
\* under its prefix; events beyond MaxEvents are merged with the last one
events_after(n) ==
    IF n \in watchers
    THEN [events EXCEPT ![n] = Min(@ + 1, MaxEvents)]
    ELSE events

\* discover_service lines 150-181: the cache it leaves and the list it
\* returns; ok tells whether get_prefix answers or raises
discovered(n, ok) ==
    IF cache[n].hit
    THEN [cache |-> cache, services |-> cache[n].services, ok |-> TRUE,
          asked |-> FALSE]
    ELSE IF ok
    THEN [cache |-> [cache EXCEPT ![n] = [hit |-> TRUE, services |-> lookup(n)]],
          services |-> lookup(n), ok |-> TRUE, asked |-> TRUE]
    ELSE [cache |-> cache, services |-> {}, ok |-> FALSE, asked |-> TRUE]

\* ServiceDiscovery.register_service(service): the lease is created, the
\* put raises and the except clause returns False; line 103, which starts
\* the _keep_alive task of the lease, is not reached
register_service(n, i) ==
    /\ IF run_in_executor_takes_kwargs
       THEN \E success \in BOOLEAN :
              /\ etcd' = IF success THEN etcd \cup {<<n, i>>} ELSE etcd
              /\ events' = IF success THEN events_after(n) ELSE events
              /\ keep_alive' = IF success
                               THEN [keep_alive EXCEPT ![<<n, i>>] =
                                       Min(@ + 1, MaxKeepAlive)]
                               ELSE keep_alive
              /\ d_last' = DiscOp("register_service", n, i, {}, success)
       ELSE /\ d_last' = DiscOp("register_service", n, i, {}, FALSE)
            /\ UNCHANGED <<etcd, events, keep_alive>>
    /\ UNCHANGED <<cache, watchers, d_stopped>>
    /\ UNCHANGED not_discovery

\* another registrant of the same etcd prefix (the Go services the comments
\* of lines 85 and 155 name) puts the key of instance i of service n
etcd_put(n, i) ==
    /\ etcd' = etcd \cup {<<n, i>>}
    /\ events' = events_after(n)
    /\ d_last' = DiscOp("etcd_put", n, i, {}, TRUE)
    /\ UNCHANGED <<cache, watchers, d_stopped, keep_alive>>
    /\ UNCHANGED not_discovery

\* the lease of a key runs out without renewal and etcd deletes the key
lease_expired(n, i) ==
    /\ <<n, i>> \in etcd
    /\ etcd' = etcd \ {<<n, i>>}
    /\ events' = events_after(n)
    /\ d_last' = DiscOp("lease_expired", n, i, {}, TRUE)
    /\ UNCHANGED <<cache, watchers, d_stopped, keep_alive>>
    /\ UNCHANGED not_discovery

\* ServiceDiscovery.deregister_service(service); ok tells whether delete
\* answers or raises; it answers whether it deleted a key
deregister_service(n, i, ok) ==
    /\ IF ok
       THEN /\ etcd' = etcd \ {<<n, i>>}
            /\ events' = IF <<n, i>> \in etcd THEN events_after(n) ELSE events
            /\ d_last' = DiscOp("deregister_service", n, i, {}, <<n, i>> \in etcd)
       ELSE /\ d_last' = DiscOp("deregister_service", n, i, {}, FALSE)
            /\ UNCHANGED <<etcd, events>>
    /\ UNCHANGED <<cache, watchers, d_stopped, keep_alive>>
    /\ UNCHANGED not_discovery

\* ServiceDiscovery.discover_service(n); a call that filled the cache starts
\* the _watch_service task, which watches unless the discovery is stopped
discover_service(n, ok) ==
    /\ LET r == discovered(n, ok) IN
       /\ cache' = r.cache
       /\ watchers' = IF r.asked /\ r.ok /\ ~d_stopped
                      THEN watchers \cup {n} ELSE watchers
       /\ d_last' = DiscOp("discover_service", n, None, r.services, r.ok)
    /\ UNCHANGED <<etcd, events, d_stopped, keep_alive>>
    /\ UNCHANGED not_discovery

\* _watch_service lines 222-227: the watcher of n takes one event and
\* calls discover_service(n) to update the cache
watch_event(n, ok) ==
    /\ ~d_stopped
    /\ n \in watchers
    /\ events[n] > 0
    /\ events' = [events EXCEPT ![n] = @ - 1]
    /\ cache' = discovered(n, ok).cache
    /\ d_last' = DiscOp("watch_service", n, None, {}, TRUE)
    /\ UNCHANGED <<etcd, watchers, d_stopped, keep_alive>>
    /\ UNCHANGED not_discovery

\* ServiceDiscovery.close
discovery_close ==
    /\ d_stopped' = TRUE
    /\ watchers' = {}
    /\ cache' = [n \in ServiceName |-> NotCached]
    /\ events' = [n \in ServiceName |-> 0]
    /\ keep_alive' = [k \in ServiceName \X InstanceId |-> 0]
    /\ d_last' = DiscOp("close", "none", None, {}, TRUE)
    /\ UNCHANGED etcd
    /\ UNCHANGED not_discovery

DiscoveryNext ==
    \/ \E n \in ServiceName, i \in InstanceId : register_service(n, i)
    \/ \E n \in ServiceName, i \in InstanceId : etcd_put(n, i)
    \/ \E n \in ServiceName, i \in InstanceId : lease_expired(n, i)
    \/ \E n \in ServiceName, i \in InstanceId, ok \in BOOLEAN :
          deregister_service(n, i, ok)
    \/ \E n \in ServiceName, ok \in BOOLEAN : discover_service(n, ok)
    \/ \E n \in ServiceName, ok \in BOOLEAN : watch_event(n, ok)
    \/ discovery_close

SpecDiscovery == Init /\ [][DiscoveryNext]_vars

\* the discovery whose callers (the application, or the _keep_alive task of
\* lines 200-203) go on reissuing register_service for every key
SpecRenewal ==
    /\ SpecDiscovery
    /\ \A n \in ServiceName, i \in InstanceId :
          WF_vars(register_service(n, i))

(* ---------------------------- ServiceRegistrar ------------------------- *)
\* the registrar is built on the discovery it is given (registrar.py
\* 13-24); what that discovery answers to register_service and to
\* deregister_service is an input of the registrar's operations

\* the uuid4 of the next register: an instance id not used before
FreshId == CHOOSE i \in InstanceId :
              returned[i] = "no" /\ \A j \in 1..(i - 1) : returned[j] # "no"

\* mutant: register goes on whatever register_service answered
raises_never(success) == FALSE

\* register lines 69-71: RuntimeError unless register_service answered True
raises(success) == ~success

\* ServiceRegistrar.register(name, host, port, checks=[...]) with one check
\* for every label of labels; with checks the _monitor_health task of the
\* instance is started, which keeps the list of check names
register(labels, success) ==
    /\ \E i \in InstanceId : returned[i] = "no"
    /\ IF raises(success)
       THEN /\ reg_last' = RegOp("register", None, success, "RuntimeError")
            /\ UNCHANGED <<registered_services, service_checks, returned,
                           monitored, registry>>
            /\ UNCHANGED <<checks, results, tasks, check_func, task_func,
                           orphans>>
       ELSE LET names == {FreshId} \X labels IN
            /\ registered_services' = registered_services \cup {FreshId}
            /\ registry' = registry \cup {FreshId}
            /\ IF labels # {}
               THEN /\ add_checks(names, "f1")
                    /\ service_checks' = [service_checks EXCEPT ![FreshId] = names]
                    /\ monitored' = [monitored EXCEPT ![FreshId] = names]
               ELSE UNCHANGED <<checks, results, tasks, check_func,
                                task_func, orphans,
                                service_checks, monitored>>
            /\ returned' = [returned EXCEPT ![FreshId] = "yes"]
            /\ reg_last' = RegOp("register", FreshId, success, "id")
    /\ UNCHANGED hc_stopped
    /\ UNCHANGED not_health

\* ServiceRegistrar.deregister(service_id); the _monitor_health task of the
\* instance is not cancelled and keeps its list of check names
deregister(id, success) ==
    /\ IF id \notin registered_services
       THEN /\ reg_last' = RegOp("deregister", id, TRUE, "False")
            /\ UNCHANGED <<registered_services, service_checks, returned,
                           registry>>
            /\ UNCHANGED <<checks, results, tasks, check_func, task_func,
                           orphans>>
       ELSE /\ \E S \in SUBSET may_survive(service_checks[id]) :
                  remove_checks(service_checks[id], S)
            /\ service_checks' = [service_checks EXCEPT ![id] = {}]
            /\ registered_services' =
                  IF success THEN registered_services \ {id}
                  ELSE registered_services
            /\ registry' = IF success THEN registry \ {id} ELSE registry
            /\ returned' = IF success THEN [returned EXCEPT ![id] = "removed"]
                           ELSE returned
            /\ reg_last' = RegOp("deregister", id, success,
                                 IF success THEN "True" ELSE "False")
    /\ UNCHANGED <<hc_stopped, monitored>>
    /\ UNCHANGED not_health

\* ServiceRegistrar._monitor_health, one pass over the check names of an
\* instance: the service is registered again if a result is UNHEALTHY;
\* success is what the discovery answers to that register_service
monitor_health(id, success) ==
    /\ monitored[id] # {}
    /\ LET found_unhealthy == \E n \in monitored[id] : results[n].status = UNHEALTHY IN
       /\ ~found_unhealthy => success
       /\ reg_last' = RegOp("monitor_health", id, success,
             IF found_unhealthy THEN "register_service" ELSE "None")
       /\ registry' = IF found_unhealthy /\ success THEN registry \cup {id}
                      ELSE registry
    /\ UNCHANGED <<registered_services, service_checks, returned, monitored>>
    /\ UNCHANGED health_vars
    /\ UNCHANGED not_health

\* ServiceRegistrar.close
registrar_close ==
    /\ hc_stopped' = TRUE
    /\ \E S \in SUBSET may_survive(CheckName) : remove_checks(CheckName, S)
    /\ reg_last' = RegOp("close", None, TRUE, "None")
    /\ UNCHANGED <<registered_services, service_checks, returned, monitored,
                   registry>>
    /\ UNCHANGED not_health

RegistrarNext ==
    \/ \E labels \in SUBSET CheckLabel, success \in BOOLEAN :
          register(labels, success)
    \/ \E id \in InstanceId, success \in BOOLEAN : deregister(id, success)
    \/ \E id \in InstanceId, success \in BOOLEAN : monitor_health(id, success)
    \/ \E n \in CheckName : start_cycle(n)
    \/ \E n \in CheckName, outcome \in ProbeOutcome : probe(n, outcome)
    \/ \E n \in CheckName, outcome \in ProbeOutcome : orphan_step(n, outcome)
    \/ registrar_close

SpecRegistrar == Init /\ [][RegistrarNext]_vars

(* ------------------- AsyncBridge (core/async_adapter.py) --------------- *)
\* core/async_adapter.py imports uuid and typing only: the name `time`
\* that register_callback reads is not defined in the module
time_is_imported == FALSE

\* AsyncBridge.register_callback(m, callback): evaluating time.time()
\* raises NameError before the entry is stored
register_callback(m) ==
    /\ asked' = asked \cup {m}
    /\ IF time_is_imported
       THEN /\ pending_callbacks' = pending_callbacks \cup {m}
            /\ b_last' = BridgeOp("register_callback", m, FALSE)
       ELSE /\ b_last' = BridgeOp("register_callback", m, TRUE)
            /\ UNCHANGED pending_callbacks
    /\ UNCHANGED <<invoked, responded>>
    /\ UNCHANGED not_bridge

\* AsyncBridge.handle_response(m, response, error): the entry is popped
\* and, if there was one, its callback is invoked (the count of invocations
\* is followed up to two)
handle_response(m) ==
    /\ pending_callbacks' = pending_callbacks \ {m}
    /\ invoked' = IF m \in pending_callbacks
                  THEN [invoked EXCEPT ![m] = Min(@ + 1, 2)]
                  ELSE invoked
    /\ responded' = responded \cup {m}
    /\ b_last' = BridgeOp("handle_response", m, FALSE)
    /\ UNCHANGED asked
    /\ UNCHANGED not_bridge

BridgeNext ==
    \/ \E m \in MsgId : register_callback(m)
    \/ \E m \in MsgId : handle_response(m)

SpecBridge == Init /\ [][BridgeNext]_vars

(* ------------------- IpcClient and AsyncBridge (client.py) ------------- *)
\* the uuid4 of the next call_async: a msg_id not made before
FreshMsgId == CHOOSE m \in MsgId :
                 m \notin issued /\ \A k \in 1..(m - 1) : k \in issued

\* AsyncBridge.register_callback (client.py 53-59): the table after the
\* entry of m is stored, with the time of the call as its timestamp
registered(pending, m) == [pending EXCEPT ![m] = 0]

\* IpcClient.call_async(method, params, callback): the callback is
\* registered, then the request is sent; sent tells whether sendall
\* returns or raises, which the except clause prints
call_async(sent) ==
    /\ issued # MsgId
    /\ issued' = issued \cup {FreshMsgId}
    /\ client_pending' = registered(client_pending, FreshMsgId)
    /\ c_last' = BridgeOp("call_async", FreshMsgId, ~sent)
    /\ UNCHANGED completed
    /\ UNCHANGED not_client

\* _cleanup_expired line 66: the entry is older than an hour
expired(age) == age > expiry

\* AsyncBridge._cleanup_expired (client.py 61-67): every expired entry is
\* deleted; its callback is not called
cleanup_expired ==
    /\ client_pending' = [m \in MsgId |->
                            IF client_pending[m] # NoEntry
                               /\ expired(client_pending[m])
                            THEN NoEntry ELSE client_pending[m]]
    /\ c_last' = BridgeOp("_cleanup_expired", None, FALSE)
    /\ UNCHANGED <<completed, issued>>
    /\ UNCHANGED not_client

\* time.time() advances by an hour: every entry is an hour older
client_tick ==
    /\ \E m \in MsgId : client_pending[m] \in 0..(Expired - 1)
    /\ client_pending' = [m \in MsgId |->
                            IF client_pending[m] = NoEntry THEN NoEntry
                            ELSE Min(client_pending[m] + 1, Expired)]
    /\ c_last' = BridgeOp("tick", None, FALSE)
    /\ UNCHANGED <<completed, issued>>
    /\ UNCHANGED not_client

ClientNext ==
    \/ \E sent \in BOOLEAN : call_async(sent)
    \/ cleanup_expired
    \/ client_tick

SpecClient == Init /\ [][ClientNext]_vars

(* ------------------- the codecs at work ------------------------------- *)
\* a caller sends msg in framing A, the first message of the stream
send_message(msg) ==
    /\ encoded.framing = "none"
    /\ encoded' = [framing |-> "A", msg |-> msg]
    /\ wire' = send_message_bytes(msg)
    /\ corrupted' = FALSE
    /\ decoded' = NotDecoded
    /\ UNCHANGED not_codec

\* the peer reads the stream with _read_message
read_message ==
    /\ encoded.framing = "A"
    /\ decoded = NotDecoded
    /\ decoded' = read_message_result(wire)
    /\ UNCHANGED <<encoded, wire, corrupted>>
    /\ UNCHANGED not_codec

\* Protocol(compression=algorithm).pack(payload, msg_type, priority), the
\* first message of the stream
pack(algorithm, payload, msg_type, priority) ==
    /\ encoded.framing = "none"
    /\ encoded' = [framing |-> "header",
                   msg |-> [algorithm |-> algorithm, payload |-> payload,
                            msg_type |-> msg_type, priority |-> priority]]
    /\ wire' = pack_bytes(algorithm, payload, msg_type, priority)
    /\ corrupted' = FALSE
    /\ decoded' = NotDecoded
    /\ UNCHANGED not_codec

\* bit k of byte i of the packed message changes on the way
corrupt(i, k) ==
    /\ encoded.framing = "header"
    /\ ~corrupted
    /\ decoded = NotDecoded
    /\ i \in 1..Len(wire)
    /\ wire' = [wire EXCEPT ![i] = flip(@, k)]
    /\ corrupted' = TRUE
    /\ UNCHANGED <<encoded, decoded>>
    /\ UNCHANGED not_codec

\* Protocol.unpack of the bytes that arrived
unpack ==
    /\ encoded.framing = "header"
    /\ decoded = NotDecoded
    /\ decoded' = unpack_result(wire)
    /\ UNCHANGED <<encoded, wire, corrupted>>
    /\ UNCHANGED not_codec

\* longest packed message: the header, a magic number and the payload
MaxWire == HEADER_SIZE + 4 + MaxData

\* the two codecs on a stream that delivers what was written
CodecNext ==
    \/ \E t \in MessageType, id \in Text, service \in Text, method \in Text,
          data \in Data, metadata \in MetaValues :
            send_message(Message(t, id, service, method, data, metadata))
    \/ read_message
    \/ \E algorithm \in Algorithms, payload \in Data,
          t \in HeaderMessageType, priority \in Priority :
            pack(algorithm, payload, t, priority)
    \/ unpack

SpecCodec == Init /\ [][CodecNext]_vars

\* the header codec on a stream that may change one bit
CorruptNext ==
    \/ \E algorithm \in Algorithms, payload \in Data,
          t \in HeaderMessageType, priority \in Priority :
            pack(algorithm, payload, t, priority)
    \/ \E i \in 1..MaxWire, k \in 0..7 : corrupt(i, k)
    \/ unpack

SpecCorrupt == Init /\ [][CorruptNext]_vars

\* a peer of the worker writes a frame of framing A for msg whose data
\* length field says data_len and whose body carries the bytes in trailing
\* after the data: the bytes _read_message gets from readexactly
frame_bytes(msg, data_len, trailing) ==
    LET msg_bytes == <<msg.msg_type>>
            \o length_prefixed(utf8_encode(msg.id))
            \o length_prefixed(utf8_encode(msg.service))
            \o length_prefixed(utf8_encode(msg.method))
            \o length_prefixed(utf8_encode(json_dumps(msg.metadata)))
            \o pack_le32(data_len) \o msg.data \o trailing
    IN length_prefixed(msg_bytes)

write_frame(msg, data_len, trailing) ==
    /\ encoded.framing = "none"
    /\ encoded' = [framing |-> "A", msg |-> msg]
    /\ wire' = frame_bytes(msg, data_len, trailing)
    /\ corrupted' = FALSE
    /\ decoded' = NotDecoded
    /\ UNCHANGED not_codec

\* framing A read from a peer that declares any data length and may append
\* bytes to the body
FramesNext ==
    \/ \E t \in MessageType, id \in Text, service \in Text, method \in Text,
          data \in Data, metadata \in MetaValues,
          data_len \in 0..(MaxData + 1), trailing \in Data :
            write_frame(Message(t, id, service, method, data, metadata),
                        data_len, trailing)
    \/ read_message

SpecFrames == Init /\ [][FramesNext]_vars

(* ------------------------- the workers at work ------------------------- *)
\* connect() and listen() / run() of a worker of either class
worker_connect(class) ==
    /\ worker = "none"
    /\ worker' = class
    /\ listening' = TRUE
    /\ UNCHANGED <<inbox, arrived, read_ids, handling, written, writes_out,
                   task_pc, to_write>>
    /\ UNCHANGED not_worker

\* the hub writes a frame to the worker
hub_writes(msg_type, method) ==
    /\ worker # "none"
    /\ arrived < MaxFrames
    /\ arrived' = arrived + 1
    /\ inbox' = Append(inbox, Frame(msg_type, arrived + 1, method))
    /\ UNCHANGED <<worker, read_ids, handling, written, listening, writes_out,
                   task_pc, to_write>>
    /\ UNCHANGED not_worker

\* mutant: the response carries an empty id
response_without_id(msg, error) ==
    [msg_type |-> RESPONSE, id |-> 0, method |-> msg.method, error |-> error]

\* _handle_request lines 152-161, 177-184, 189-198: the RESPONSE to msg,
\* with metadata {"error": "true"} or {}
response_to(msg, error) ==
    [msg_type |-> RESPONSE, id |-> msg.id, method |-> msg.method,
     error |-> error]

\* NeoIPCClient._handle_request(msg): what it writes.  No handler: the
\* error response.  Otherwise the handler runs inside try, and either the
\* response or, from the except clause, the error response is sent.
handle_request_writes(msg) ==
    IF msg.method \notin handlers THEN <<response_to(msg, TRUE)>>
    ELSE IF handler_raises(msg.method) THEN <<response_to(msg, TRUE)>>
    ELSE <<response_to(msg, FALSE)>>

\* _send_message lines 98-99: the two writer.write calls for a frame, its
\* length prefix and its body
frame_writes(frames) ==
    IF frames = <<>> THEN <<>>
    ELSE <<[id |-> frames[1].id, part |-> "prefix"],
           [id |-> frames[1].id, part |-> "body"]>>

\* one pass of the loop of listen (neo_client.py) or run (service.py):
\* _read_message returns the next frame, or raises on a frame of no type,
\* which ends the loop.  listen starts a task for a REQUEST, run awaits
\* _handle_request before it reads on; other frames write nothing.
read_frame ==
    /\ listening
    /\ inbox # <<>>
    /\ LET msg == Head(inbox) IN
       /\ inbox' = Tail(inbox)
       /\ IF msg.msg_type \notin MessageType
          THEN /\ listening' = FALSE
               /\ UNCHANGED <<read_ids, handling, written, writes_out>>
          ELSE IF msg.msg_type # REQUEST
          THEN UNCHANGED <<read_ids, handling, written, listening, writes_out>>
          ELSE /\ read_ids' = read_ids \cup {msg.id}
               /\ UNCHANGED listening
               /\ IF worker = "neo_client"
                  THEN /\ handling' = handling \cup {msg}
                       /\ UNCHANGED <<written, writes_out>>
                  ELSE /\ written' = written \o handle_request_writes(msg)
                       /\ writes_out' = writes_out
                             \o frame_writes(handle_request_writes(msg))
                       /\ UNCHANGED handling
    /\ UNCHANGED <<worker, arrived, task_pc, to_write>>
    /\ UNCHANGED not_worker

\* a task that listen created runs _handle_request(msg) to its end
handle_request(msg) ==
    /\ msg \in handling
    /\ handling' = handling \ {msg}
    /\ written' = written \o handle_request_writes(msg)
    /\ writes_out' = writes_out \o frame_writes(handle_request_writes(msg))
    /\ UNCHANGED <<worker, inbox, arrived, read_ids, listening, task_pc,
                   to_write>>
    /\ UNCHANGED not_worker

\* the frames the hub can write: requests, and frames without a method
HubFrames ==
    ({REQUEST} \X Methods) \cup ({RESPONSE, HEARTBEAT, NoType} \X {"echo"})

WorkerNext ==
    \/ \E class \in WorkerClass : worker_connect(class)
    \/ \E f \in HubFrames : hub_writes(f[1], f[2])
    \/ read_frame
    \/ \E id \in 1..MaxFrames, method \in Methods :
          handle_request(Frame(REQUEST, id, method))

SpecWorker == Init /\ [][WorkerNext]_vars

\* mutant: _send_message drains after each write
written_before_await_one(writes) == <<Head(writes)>>

\* _send_message lines 98-100: the writes a task makes before it waits in
\* `await self.writer.drain()`, the only await of _send_message
written_before_await(writes) == writes

\* a _handle_request task makes the next writes of its _send_message and
\* waits in drain()
task_writes(id, writes) ==
    LET now == written_before_await(writes) IN
    /\ writes_out' = writes_out \o now
    /\ to_write' = [to_write EXCEPT ![id] =
                      SubSeq(writes, Len(now) + 1, Len(writes))]
    /\ task_pc' = [task_pc EXCEPT ![id] = "drain"]

\* the event loop runs the task of _handle_request(msg) from one await to
\* the next.  A task that has not run yet takes lines 150-175: without a
\* handler it sends the error response, with one it calls it, and waits if
\* the handler is a coroutine that waits (suspends).  A task whose handler
\* has returned or raised sends the response.  A task whose drain() has
\* returned makes the writes it has left, or ends.
task_step(msg, suspends) ==
    /\ msg \in handling
    /\ LET id == msg.id IN
       IF task_pc[id] = "none" /\ msg.method \in handlers /\ suspends
       THEN /\ task_pc' = [task_pc EXCEPT ![id] = "handler"]
            /\ UNCHANGED <<writes_out, to_write, written, handling>>
       ELSE IF task_pc[id] \in {"none", "handler"}
       THEN /\ ~suspends
            /\ written' = written \o handle_request_writes(msg)
            /\ task_writes(id, frame_writes(handle_request_writes(msg)))
            /\ UNCHANGED handling
       ELSE IF to_write[id] # <<>>
       THEN /\ ~suspends
            /\ task_writes(id, to_write[id])
            /\ UNCHANGED <<written, handling>>
       ELSE /\ ~suspends
            /\ handling' = handling \ {msg}
            /\ task_pc' = [task_pc EXCEPT ![id] = "done"]
            /\ UNCHANGED <<writes_out, to_write, written>>
    /\ UNCHANGED <<worker, inbox, arrived, read_ids, listening>>
    /\ UNCHANGED not_worker

\* the worker with its _handle_request tasks followed from await to await
WritersNext ==
    \/ \E class \in WorkerClass : worker_connect(class)
    \/ \E f \in HubFrames : hub_writes(f[1], f[2])
    \/ read_frame
    \/ \E id \in 1..MaxFrames, method \in Methods, suspends \in BOOLEAN :
          task_step(Frame(REQUEST, id, method), suspends)

SpecWriters == Init /\ [][WritersNext]_vars

\* the event loop runs every task it holds, and the loop reads on
SpecWorkerLive ==
    /\ SpecWorker
    /\ WF_vars(read_frame)
    /\ \A id \in 1..MaxFrames, method \in Methods :
          WF_vars(handle_request(Frame(REQUEST, id, method)))

(* ------------------------------ claims -------------------------------- *)
\* a get_connection step that returned connection c
Acquired(c) == handed'[c] = handed[c] + 1
\* a return_connection(c) step
Released(c) == handed'[c] = handed[c] - 1

\* C1: immediately after get_connection returns a connection, that
\* connection's state is BUSY.
C1_busy_after_acquire ==
    (last.op = "get_connection" /\ last.conn # None)
        => state[last.conn] = BUSY

\* C2: between a get_connection that returns c and the matching
\* return_connection(c) no other get_connection returns c: a connection has
\* at most one outstanding hand-out.
C2_one_holder == \A c \in ConnId : handed[c] <= 1

\* C3: whatever get_connection, return_connection, auto-scale ticks and
\* health ticks have run, the pool never holds more than max_size
\* connections.
C3_at_most_max_size == Len(connections) <= max_size

\* the pool is full and a get_connection that found no available
\* connection returned None instead of creating one
C3_witness ==
    /\ Len(connections) = max_size
    /\ last.op = "get_connection" /\ last.conn = None /\ ~last.failed

\* C4: with a reachable endpoint, a constructed pool that is not closed
\* holds at least min_size connections.
C4_at_least_min_size ==
    (constructed /\ ~stopped /\ ~connect_failed)
        => Len(connections) >= min_size

C6_release_ok ==
    [][\A c \in ConnId :
         (Released(c) /\ state[c] # ERROR)
            => /\ state'[c] = IDLE
               /\ (c \in Range(connections) => c \in Range(connections'))
               /\ Len(connections') = Len(connections)]_vars

\* a BUSY or IDLE connection of the list has just been returned
C6_witness ==
    /\ last.op = "return_connection"
    /\ last.conn \in Range(connections)
    /\ state[last.conn] = IDLE

\* C7: after return_connection(c) for a connection in ERROR state, c is
\* closed and out of the list; a connection that left the list never
\* enters it again, and get_connection only returns members of the list.
C7_release_error ==
    [][\A c \in ConnId :
         /\ (Released(c) /\ state[c] = ERROR)
               => (state'[c] = CLOSED /\ c \notin Range(connections'))
         /\ (state[c] # "none" /\ c \notin Range(connections))
               => c \notin Range(connections')
         /\ Acquired(c) => c \in Range(connections')]_vars

\* an ERROR connection has just been returned: it is closed and gone
C7_witness ==
    /\ last.op = "return_connection"
    /\ state[last.conn] = CLOSED
    /\ last.conn \notin Range(connections)

\* C8: when every connection of the list is handed out and the list is
\* below max_size, the next get_connection (endpoint reachable) returns a
\* newly created connection and the list grows by exactly one.
C8_all_handed_creates ==
    [][(/\ constructed /\ ~connect_failed'
        /\ \A c \in Range(connections) : handed[c] > 0
        /\ Len(connections) < max_size
        /\ \E c \in ConnId : Acquired(c))
          => (/\ Len(connections') = Len(connections) + 1
              /\ \A c \in ConnId :
                    Acquired(c) => c \notin Range(connections))]_vars

\* C9: an auto-scale tick that starts with active/total above
\* scale_up_threshold (or total = 0) and total < max_size ends, when the
\* endpoint is reachable, with min(scale_step, max_size - total) more
\* connections.
C9_scale_up ==
    [][(/\ last.op # "auto_scale" /\ last'.op = "auto_scale"
        /\ ~connect_failed'
        /\ usage_above_threshold(get_stats.active_connections,
                                 Len(connections))
        /\ Len(connections) < max_size)
          => Len(connections') = Len(connections)
                 + Min(scale_step, max_size - Len(connections))]_vars

\* C10: a failed connection attempt leaves the connections of the list as
\* they are (construction only adds the attempts that succeeded) and
\* get_connection returns None.
C10_failed_attempt ==
    [][last'.failed
         => /\ Len(connections') >= Len(connections)
            /\ SubSeq(connections', 1, Len(connections)) = connections
            /\ \A c \in Range(connections) :
                  state'[c] = state[c] /\ socket'[c] = socket[c]
            /\ last'.op = "get_connection"
                  => (connections' = connections /\ last'.conn = None)
            /\ last'.op = "__init__"
                  => Len(connections') < Len(connections) + min_size]_vars

\* a connection attempt has failed in a get_connection on a pool that
\* holds a connection, and the list is as it was
C10_witness ==
    /\ last.op = "get_connection" /\ last.failed /\ last.conn = None
    /\ connections # <<>>

\* C11: close() leaves every connection that was in the list CLOSED, the
\* list empty and the pool stopped; once the pool is stopped no pass of the
\* health worker or of the auto-scale worker runs; a close() that follows a
\* close() changes nothing.
C11_close_idempotent ==
    [][/\ last'.op = "close"
            => /\ stopped' /\ connections' = <<>>
               /\ \A c \in Range(connections) :
                     state'[c] = CLOSED /\ ~socket'[c]
               /\ last.op = "close"
                     => UNCHANGED <<constructed, stopped, connections, state,
                                    socket, lifetime, idle_time, handed,
                                    connect_failed>>
       /\ (stopped /\ last' # last)
            => last'.op \notin {"health", "auto_scale"}]_vars

\* close() has closed a pool that held a connection a caller was using
C11_witness ==
    /\ last.op = "close" /\ stopped /\ connections = <<>>
    /\ \E c \in ConnId : state[c] = CLOSED /\ handed[c] > 0

\* C12: whatever the strategy, select returns None exactly when the list
\* has no connection that is IDLE with a socket, and otherwise a connection
\* of the list that is IDLE with a socket.
C12_select_eligible ==
    LET eligible == {c \in Range(connections) : state[c] = IDLE /\ socket[c]}
    IN selected.strategy # "none"
         => /\ (selected.conn = None) <=> (eligible = {})
            /\ selected.conn # None => selected.conn \in eligible

\* round robin has passed over the connections that are not eligible and
\* returned the last connection of a full list
C12_witness ==
    /\ selected = Selected("round_robin", MaxConnId)
    /\ Len(connections) = MaxConnId
    /\ \E c \in Range(connections) : state[c] = IDLE /\ ~socket[c]
    /\ \E c \in Range(connections) : state[c] = BUSY

\* C13: a cycle that publishes its result has made at most `retries`
\* attempts; the result is HEALTHY with error None if an attempt of the
\* cycle succeeded, and UNHEALTHY only if no attempt did.
C13_cycle_result ==
    [][\A n \in CheckName :
          (tasks[n].pc = "probe" /\ tasks'[n].pc = "loop")
             => /\ tasks'[n].i <= retries
                /\ tasks'[n].ok
                      => results'[n] = [status |-> HEALTHY, error |-> NoError]
                /\ results'[n].status = UNHEALTHY => ~tasks'[n].ok]_vars

\* C14: a discover_service(n) that returns without an exception, at a time
\* when the watcher of n has no event left to process, returns every
\* instance of n that is registered in etcd at that time, whatever
\* discover_service calls came before the registration.
C14_registered_is_discovered ==
    [][(/\ d_last'.op = "discover_service" /\ d_last'.ok
        /\ events[d_last'.name] = 0)
          => \A i \in InstanceId :
                <<d_last'.name, i>> \in etcd' => i \in d_last'.services]_vars

\* C15: a discover_service(n), at a time when the watcher of n has no event
\* left to process, returns no instance whose key is not in etcd at that
\* time, that is none that was deregistered or whose lease expired.
C15_removed_is_omitted ==
    [][(d_last'.op = "discover_service" /\ events[d_last'.name] = 0)
          => \A i \in d_last'.services : <<d_last'.name, i>> \in etcd']_vars

\* the health checks attached to instance id
ChecksOf(id) == {n \in checks : n[1] = id}

\* C16: the registered set is the set of the ids that register has returned
\* and no deregister has since removed with success; a register whose
\* backend registration fails raises, adds no id and attaches no check.
C16_registered_set ==
    [][/\ registered_services' = {i \in InstanceId : returned'[i] = "yes"}
       /\ (reg_last' # reg_last /\ reg_last'.op = "register"
             /\ ~reg_last'.success)
            => /\ reg_last'.ret = "RuntimeError"
               /\ UNCHANGED <<registered_services, service_checks, checks,
                              tasks, results>>]_vars

\* a register has failed on a registrar that holds an instance with a
\* health check
C16_witness ==
    /\ reg_last.op = "register" /\ reg_last.ret = "RuntimeError"
    /\ \E i \in registered_services : ChecksOf(i) # {}

\* C17: a deregister that returns True has removed the instance and its
\* health checks; one that returns False has left the registered set and
\* the health checks as they were.
C17_deregister_atomic ==
    [][(reg_last' # reg_last /\ reg_last'.op = "deregister")
          => IF reg_last'.ret = "True"
             THEN /\ reg_last'.id \notin registered_services'
                  /\ service_checks'[reg_last'.id] = {}
                  /\ \A n \in checks' : n[1] # reg_last'.id
             ELSE UNCHANGED <<registered_services, service_checks,
                              checks>>]_vars

\* C18: the first handle_response for a msg_id that register_callback was
\* called with removes the entry and invokes the callback, once; a later
\* response for the id, or a response for an id that was never registered,
\* invokes no callback and leaves the pending table as it is.
C18_callback_once ==
    [][\A m \in MsgId :
          (b_last' # b_last /\ b_last' = BridgeOp("handle_response", m, FALSE))
             => IF m \in asked /\ m \notin responded
                THEN /\ invoked'[m] = invoked[m] + 1
                     /\ m \notin pending_callbacks'
                ELSE UNCHANGED <<invoked, pending_callbacks>>]_vars

\* the msg_ids that have an entry in the client's pending table
Pending == {m \in MsgId : client_pending[m] # NoEntry}

\* C19: no entry leaves the pending table of the client's bridge without
\* its completion having been invoked.
C19_removed_is_completed ==
    [][\A m \in MsgId :
          (m \in Pending /\ client_pending'[m] = NoEntry)
             => m \in completed']_vars

\* C20: the pending table of the client's bridge never holds more entries
\* than the cap.
C20_pending_capped == Cardinality(Pending) <= PendingCap


\* C24: an auto-scale tick that takes the scale-down branch (idle >
\* scale_down_idle_threshold and total > min_size, the scale-up branch not
\* taken) closes exactly min(idle - 1, total - min_size) connections, every
\* one of them IDLE, and leaves at least min_size connections.
C24_scale_down ==
    [][LET total == Len(connections)
           idle == total - get_stats.active_connections
           closed == Range(connections) \ Range(connections')
       IN (/\ last.op # "auto_scale" /\ last'.op = "auto_scale"
           /\ ~(usage_above_threshold(get_stats.active_connections, total)
                  /\ total < max_size)
           /\ idle > scale_down_idle_threshold
           /\ total > min_size)
             => /\ Cardinality(closed) = Min(idle - 1, total - min_size)
                /\ \A c \in closed : state[c] = IDLE /\ state'[c] = CLOSED
                /\ Len(connections') >= min_size]_vars

\* C25: a health-loop tick leaves in the list every IDLE connection that
\* was created less than idle_timeout ago (and so was last used, if ever,
\* less than idle_timeout ago).
C25_idle_timeout ==
    [][(last.op # "health" /\ last'.op = "health")
          => \A c \in Range(connections) :
                (state[c] = IDLE /\ lifetime[c] < idle_timeout)
                   => c \in Range(connections') /\ state'[c] = IDLE]_vars

\* C26: a tick of the auto-scaler or of the health loop neither removes nor
\* closes a connection that a caller was handed, is using (BUSY) and has
\* not returned.
C26_handed_is_kept ==
    [][(last' # last /\ last'.op \in {"health", "auto_scale"})
          => \A c \in Range(connections) :
                (handed[c] > 0 /\ state[c] = BUSY)
                   => c \in Range(connections') /\ state'[c] = BUSY]_vars

\* C27: every step that changes the state of a connection or the list of
\* connections is made with the pool's lock held.
C27_changes_under_lock ==
    [][(state' # state \/ connections' # connections)
          => holds_lock(last'.op, connections' # connections)]_vars

\* C30: when the socket call inside Connection.send or Connection.receive
\* raised, the connection is ERROR when the call returns.
C30_error_after_socket_error ==
    [][(last' # last /\ last'.error)
          => state'[last'.conn] = ERROR]_vars


\* C28: with n eligible connections, the latest n calls of
\* RoundRobinBalancer.select have returned n distinct connections, every
\* eligible connection once.
C28_round_robin_fair ==
    LET available == filter_available(connections)
        n == Len(available)
        m == Len(rr_returned)
    IN (n > 0 /\ m >= n)
         => {rr_returned[i] : i \in (m - n + 1)..m} = Range(available)

\* round robin has been called MaxConnId times on a list of which two
\* connections are eligible and one is not
C28_witness ==
    /\ Len(rr_returned) = MaxConnId
    /\ Len(connections) = MaxConnId
    /\ Len(filter_available(connections)) = 2
    /\ rr_returned[MaxConnId] # rr_returned[MaxConnId - 1]

\* C29: a WeightedResponseTimeBalancer.select that follows one that
\* returned c, over an eligible list that holds c and another connection,
\* does not return c, whether c was used in between or not.
C29_no_immediate_repick ==
    [][LET eligible == Range(filter_available(connections)) IN
       (/\ selected.strategy = "weighted_response_time"
        /\ selected.conn \in eligible
        /\ Cardinality(eligible) >= 2
        /\ last_response_times' # last_response_times)
          => selected'.conn # selected.conn]_vars


C22_corruption_detected ==
    (encoded.framing = "header" /\ corrupted /\ decoded # NotDecoded)
        => decoded = Failed


\* the RESPONSE frames written so far that carry the id
ResponsesTo(id) ==
    {i \in 1..Len(written) :
        written[i].msg_type = RESPONSE /\ written[i].id = id}

\* C23: what a worker writes is one RESPONSE per REQUEST it has read, with
\* the id of the request: never two for one id, one once the request has
\* been handled, and one in the end for every request read.  The response
\* carries error = "true" exactly when the method has no handler or the
\* handler raises, and writing it leaves the message loop running.
C23_one_response ==
    /\ [](\A id \in 1..MaxFrames :
            /\ Cardinality(ResponsesTo(id)) <= 1
            /\ (id \in read_ids /\ \A msg \in handling : msg.id # id)
                  => Cardinality(ResponsesTo(id)) = 1)
    /\ [][written' # written
            => /\ Len(written') = Len(written) + 1
               /\ SubSeq(written', 1, Len(written)) = written
               /\ LET r == written'[Len(written')] IN
                  /\ r.msg_type = RESPONSE
                  /\ r.id \in read_ids'
                  /\ r.error <=> (r.method \notin handlers
                                    \/ handler_raises(r.method))
               /\ listening' = listening]_vars
    /\ \A id \in 1..MaxFrames :
          (id \in read_ids) ~> (ResponsesTo(id) # {})

\* a worker that starts tasks has answered a request without handler and a
\* request whose handler raised with error responses, then served a third
\* request, and its loop is running
C23_witness ==
    /\ worker = "neo_client" /\ listening
    /\ Len(written) = 3
    /\ written[1].error /\ written[2].error /\ ~written[3].error
    /\ written[1].method # written[2].method

\* C31: after ConnectionPool.close() has returned, total_connections stays
\* 0: a later get_connection returns None and no management loop creates a
\* connection
C31_closed_stays_empty ==
    stopped => /\ get_stats.total_connections = 0
               /\ (last.op = "get_connection" => last.conn = None)

\* C35: a name that remove_check or close() has removed, and that has not
\* been added again, has no result: get_result(name) returns None and keeps
\* returning None, also when a check cycle was in flight at the removal
C35_removed_has_no_result ==
    \A n \in CheckName : n \notin checks => results[n] = NoResult

\* C36: a result published under a name comes from running the check_func
\* the latest add_check registered under that name: after
\* add_check(name, f2) on a name registered with f1 no cycle of f1 publishes
C36_replaced_probe_runs ==
    [][\A n \in CheckName :
          (tasks[n].pc = "probe" /\ tasks'[n].pc = "loop")
             => task_func[n] = check_func[n]]_vars

\* C34: after deregister(id) has returned True no background task registers
\* the instance again: its key stays absent from the registry (the
\* application's register makes a new instance id)
C34_deregistered_stays_absent ==
    \A i \in InstanceId : returned[i] = "removed" => i \notin registry

\* C32: renewal recovery.  A service for which register_service has been
\* issued, and goes on being reissued, is eventually registered with a
\* running renewal task, unless it is deregistered or the discovery closed
C32_renewal_recovery ==
    \A n \in ServiceName, i \in InstanceId :
        (d_last.op = "register_service" /\ d_last.name = n /\ d_last.id = i)
          ~> \/ <<n, i>> \in etcd /\ keep_alive[<<n, i>>] > 0
             \/ d_last.op = "deregister_service" /\ d_last.name = n /\ d_last.id = i
             \/ d_stopped

\* the declared lengths of the sub-fields of the frame at the head of
\* stream account exactly for its declared length L
lengths_account(stream) ==
    LET msg_len == unpack_le32(slice(stream, 0, 4))
        msg_bytes == slice(stream, 4, 4 + msg_len)
        f_id == read_field(msg_bytes, 1)
        f_service == read_field(msg_bytes, f_id.next)
        f_method == read_field(msg_bytes, f_service.next)
        f_metadata == read_field(msg_bytes, f_method.next)
        f_data == read_field(msg_bytes, f_metadata.next)
    IN /\ f_id.ok /\ f_service.ok /\ f_method.ok /\ f_metadata.ok /\ f_data.ok
       /\ f_data.next = msg_len

\* C37: the framing-A decoder delivers no message for a frame whose declared
\* sub-field lengths do not exactly account for the declared frame length:
\* a length that runs past the end of the frame, or bytes left over after
\* the data, is an error
C37_inconsistent_frame_rejected ==
    (encoded.framing = "A" /\ decoded.status = "ok") => lengths_account(wire)

\* C38: the frames a worker writes never interleave: in the sequence of its
\* writes every length prefix is followed at once by the body of the same
\* response, and every body follows its own prefix, under every
\* interleaving of the handler tasks
C38_frames_do_not_interleave ==
    \A i \in 1..Len(writes_out) :
        /\ (writes_out[i].part = "prefix" /\ i < Len(writes_out))
              => writes_out[i + 1] = [id |-> writes_out[i].id, part |-> "body"]
        /\ writes_out[i].part = "body"
              => i > 1 /\ writes_out[i - 1] = [id |-> writes_out[i].id, part |-> "prefix"]

\* two handler tasks wait in drain() at the same time, with their two
\* responses written in the reverse order of the requests
C38_witness ==
    /\ worker = "neo_client"
    /\ \E a, b \in handling :
          /\ a.id < b.id
          /\ task_pc[a.id] = "drain" /\ task_pc[b.id] = "drain"
          /\ Len(writes_out) = 4
          /\ writes_out[1].id = b.id /\ writes_out[3].id = a.id


\* the client as time passes: the clock advances; nothing in client.py or
\* its callers calls _cleanup_expired, so no fairness obliges it
SpecClientLive == SpecClient /\ WF_vars(client_tick)

\* C40: a callback whose request call_async failed to send does not stay
\* pending for ever: its entry is removed from the table or its callback is
\* completed
C40_unsent_callback_leaves ==
    \A m \in MsgId :
        (c_last.op = "call_async" /\ c_last.raised /\ c_last.msg_id = m)
          ~> (client_pending[m] = NoEntry \/ m \in completed)

=============================================================================
